---- MODULE Spec2Model ----
(***************************************************************************)
(* A model of the asynchronous coordination core of ferrum-ts:             *)
(*   AsyncResult.retry, AsyncResult.with_timeout  (src/src/async/result.ts)*)
(*   sleep, with_timeout, make_cancelable, create_deferred, sequence       *)
(*                                                (src/src/async/utils.ts) *)
(* Each component has its own specification (SpecRetry, SpecTimeout, ...); *)
(* the variables of the components a specification does not run stay at    *)
(* their idle values.                                                      *)
(***************************************************************************)
EXTENDS Integers, Sequences, FiniteSets, TLC

(***************************************************************************)
(* Bounds of the model.                                                    *)
(***************************************************************************)
MaxAttempts == 3
MaxDelay == 2
MaxFactor == 2
MaxTimeout == 2
MaxCancelCalls == 2
NumObservers == 2
MaxCalls == 3
MaxOps == 3
MaxConcurrency == 3
MaxInitialDelay == 4
MaxCeiling == 8
MaxBackoff == 2
MaxDelayAttempt == 3
RandDen == 4
MaxItem == 3
MaxFrom == 3
MaxEntered == 4
MaxWait == 2
MaxNow == 6
MaxFnCalls == 3
MaxArg == 2
MaxResult == 2

(***************************************************************************)
(* Values.  The Result type of src/src/types/result.ts is a tagged record; *)
(* a promise is pending, fulfilled with a value, or rejected with a reason.*)
(***************************************************************************)
OkValues == {"v1", "v2"}
ErrValues == {"e1", "e2"}
Thrown == {"x1"}

Ok(v) == [kind |-> "ok", value |-> v]
Error(e) == [kind |-> "error", error |-> e]
Pending == [kind |-> "pending"]
Rejected(x) == [kind |-> "rejected", reason |-> x]
Fulfilled(v) == [kind |-> "fulfilled", value |-> v]

\* JavaScript values that are not Results: a string, and an Error object.
Str(s) == [type |-> "string", text |-> <<s>>]
ErrorObject(m) == [type |-> "Error", message |-> m]

\* String(x) of utils.ts line 140: a string is itself, an Error object
\* becomes its name, ": " and its message.
String(x) ==
  IF x.type = "string" THEN x
                       ELSE [type |-> "string", text |-> <<"Error: ", x.message>>]

Min(a, b) == IF a <= b THEN a ELSE b

\* The callers that await a handle.
Observers == 1..NumObservers

VARIABLES
  \* AsyncResult.retry
  max_attempts, initial_delay, max_delay, backoff_factor,
  r_pc, attempt, delay, r_invoked, r_outcomes, r_slept, r_result,
  \* with_timeout (utils.ts) and AsyncResult.with_timeout (result.ts)
  t_impl, timeout_ms, t_opDelay, t_opOutcome,
  t_pc, clock, timers, t_op, t_result, t_callAt, t_opAt, t_opFirst,
  \* make_cancelable (utils.ts)
  c_promise, isCanceled, c_chain, wrappedPromise, c_cancelCalls,
  c_canceledFirst, c_awaiting, c_seen,
  \* create_deferred (utils.ts)
  d_promise, d_calls, d_awaiting, d_early, d_seen,
  \* sequence (utils.ts)
  operations, s_pc, s_next, s_results, s_invoked, s_inflight, s_result,
  \* parallel (utils.ts)
  p_operations, concurrency, p_pc, currentIndex, p_results, p_workers,
  p_invoked, p_inflight, p_settled, p_result,
  \* calculateDelay (utils.ts)
  config, dl_attempt, dl_prev, dl_cur,
  \* Queue (collections/queue.ts)
  q_pc, queue, q_entered, q_removed, q_last,
  \* PriorityQueue (collections/priority_queue.ts)
  pq_pc, priorityQueue, pq_order, pq_entered, pq_removed, pq_last,
  \* fn.throttle (fp/function.ts)
  th_wait, th_now, th_last, th_timeout, th_calls, th_invoked,
  \* fn.memoize (fp/function.ts)
  m_pc, cache, m_calls, m_invoked,
  \* fn.debounce (fp/function.ts)
  db_wait, db_now, db_timeout, db_calls, db_invoked

retryVars == <<max_attempts, initial_delay, max_delay, backoff_factor,
               r_pc, attempt, delay, r_invoked, r_outcomes, r_slept, r_result>>

timeoutVars == <<t_impl, timeout_ms, t_opDelay, t_opOutcome,
                 t_pc, clock, timers, t_op, t_result, t_callAt, t_opAt,
                 t_opFirst>>

cancelVars == <<c_promise, isCanceled, c_chain, wrappedPromise, c_cancelCalls,
                c_canceledFirst, c_awaiting, c_seen>>

deferredVars == <<d_promise, d_calls, d_awaiting, d_early, d_seen>>

sequenceVars == <<operations, s_pc, s_next, s_results, s_invoked, s_inflight,
                  s_result>>

parallelVars == <<p_operations, concurrency, p_pc, currentIndex, p_results,
                  p_workers, p_invoked, p_inflight, p_settled, p_result>>

delayVars == <<config, dl_attempt, dl_prev, dl_cur>>

queueVars == <<q_pc, queue, q_entered, q_removed, q_last>>

pqVars == <<pq_pc, priorityQueue, pq_order, pq_entered, pq_removed, pq_last>>

throttleVars == <<th_wait, th_now, th_last, th_timeout, th_calls, th_invoked>>

memoizeVars == <<m_pc, cache, m_calls, m_invoked>>

debounceVars == <<db_wait, db_now, db_timeout, db_calls, db_invoked>>

vars == <<retryVars, timeoutVars, cancelVars, deferredVars, sequenceVars,
          parallelVars, delayVars, queueVars, pqVars, throttleVars,
          memoizeVars, debounceVars>>

\* What the steps of one component leave alone: the other components.
RetryOnly == UNCHANGED <<timeoutVars, cancelVars, deferredVars,
                         sequenceVars, parallelVars, delayVars, queueVars,
                         pqVars, throttleVars, memoizeVars, debounceVars>>
TimeoutOnly == UNCHANGED <<retryVars, cancelVars, deferredVars,
                           sequenceVars, parallelVars, delayVars,
                           queueVars, pqVars, throttleVars, memoizeVars,
                           debounceVars>>
CancelOnly == UNCHANGED <<retryVars, timeoutVars, deferredVars,
                          sequenceVars, parallelVars, delayVars, queueVars,
                          pqVars, throttleVars, memoizeVars, debounceVars>>
DeferredOnly == UNCHANGED <<retryVars, timeoutVars, cancelVars,
                            sequenceVars, parallelVars, delayVars,
                            queueVars, pqVars, throttleVars, memoizeVars,
                            debounceVars>>
SequenceOnly == UNCHANGED <<retryVars, timeoutVars, cancelVars,
                            deferredVars, parallelVars, delayVars,
                            queueVars, pqVars, throttleVars, memoizeVars,
                            debounceVars>>
ParallelOnly == UNCHANGED <<retryVars, timeoutVars, cancelVars,
                            deferredVars, sequenceVars, delayVars,
                            queueVars, pqVars, throttleVars, memoizeVars,
                            debounceVars>>
DelayOnly == UNCHANGED <<retryVars, timeoutVars, cancelVars, deferredVars,
                         sequenceVars, parallelVars, queueVars, pqVars,
                         throttleVars, memoizeVars, debounceVars>>
QueueOnly == UNCHANGED <<retryVars, timeoutVars, cancelVars, deferredVars,
                         sequenceVars, parallelVars, delayVars, pqVars,
                         throttleVars, memoizeVars, debounceVars>>
PQOnly == UNCHANGED <<retryVars, timeoutVars, cancelVars, deferredVars,
                      sequenceVars, parallelVars, delayVars, queueVars,
                      throttleVars, memoizeVars, debounceVars>>
ThrottleOnly == UNCHANGED <<retryVars, timeoutVars, cancelVars,
                            deferredVars, sequenceVars, parallelVars,
                            delayVars, queueVars, pqVars, memoizeVars,
                            debounceVars>>
MemoizeOnly == UNCHANGED <<retryVars, timeoutVars, cancelVars,
                           deferredVars, sequenceVars, parallelVars,
                           delayVars, queueVars, pqVars, throttleVars,
                           debounceVars>>
DebounceOnly == UNCHANGED <<retryVars, timeoutVars, cancelVars,
                            deferredVars, sequenceVars, parallelVars,
                            delayVars, queueVars, pqVars, throttleVars,
                            memoizeVars>>

(***************************************************************************)
(* AsyncResult.retry.  r_pc is the position of the async function:         *)
(*   "while"    at the loop test of line 51                                *)
(*   "await_op" suspended in `await operation()` of line 52                *)
(*   "sleep"    suspended in `await sleep(delay)` of line 58               *)
(*   "done"     the returned promise has settled (r_result)                *)
(* r_outcomes records what each invocation of the operation produced and   *)
(* r_slept the delays the loop has slept.                                  *)
(***************************************************************************)
RetryOutcomes ==
  {Ok(v) : v \in OkValues} \cup {Error(e) : e \in ErrValues}
    \cup {Rejected(x) : x \in Thrown}

RetryInit ==
  /\ max_attempts \in 0..MaxAttempts
  /\ initial_delay \in 0..MaxDelay
  /\ max_delay \in 0..MaxDelay
  /\ backoff_factor \in 1..MaxFactor
  /\ delay = initial_delay
  /\ attempt = 0
  /\ r_pc = "while"
  /\ r_invoked = 0
  /\ r_outcomes = <<>>
  /\ r_slept = <<>>
  /\ r_result = Pending

RetryIdle ==
  /\ max_attempts = 0 /\ initial_delay = 0 /\ max_delay = 0
  /\ backoff_factor = 1 /\ delay = 0 /\ attempt = 0
  /\ r_pc = "idle" /\ r_invoked = 0
  /\ r_outcomes = <<>> /\ r_slept = <<>> /\ r_result = Pending

TimeoutIdle ==
  /\ t_impl = "none" /\ timeout_ms = 0 /\ t_opDelay = 0
  /\ t_opOutcome = Pending /\ t_pc = "idle" /\ clock = 0
  /\ timers = <<>> /\ t_op = Pending /\ t_result = Pending
  /\ t_callAt = 0 /\ t_opAt = 0 /\ t_opFirst = FALSE

CancelIdle ==
  /\ c_promise = Pending /\ isCanceled = FALSE /\ c_chain = "idle"
  /\ wrappedPromise = Pending /\ c_cancelCalls = 0
  /\ c_canceledFirst = FALSE /\ c_awaiting = {} /\ c_seen = <<>>

DeferredIdle ==
  /\ d_promise = Pending /\ d_calls = <<>>
  /\ d_awaiting = {} /\ d_early = {} /\ d_seen = <<>>

SequenceIdle ==
  /\ operations = <<>> /\ s_pc = "idle" /\ s_next = 0
  /\ s_results = <<>> /\ s_invoked = <<>> /\ s_inflight = {}
  /\ s_result = Pending

ParallelIdle ==
  /\ p_operations = <<>> /\ concurrency = 0 /\ p_pc = "idle"
  /\ currentIndex = 0 /\ p_results = <<>> /\ p_workers = <<>>
  /\ p_invoked = <<>> /\ p_inflight = {} /\ p_settled = <<>>
  /\ p_result = Pending

DelayIdle ==
  /\ config = [initialDelay |-> 0, maxDelay |-> 0, backoffFactor |-> 1,
               jitter |-> FALSE]
  /\ dl_attempt = 0
  /\ dl_prev = [attempt |-> -1, random |-> 0, result |-> 0]
  /\ dl_cur = [attempt |-> -1, random |-> 0, result |-> 0]

QueueIdle ==
  /\ q_pc = "idle"
  /\ queue = [incoming |-> <<>>, outgoing |-> <<>>]
  /\ q_entered = <<>>
  /\ q_removed = <<>>
  /\ q_last = [op |-> "none"]

PQIdle ==
  /\ pq_pc = "idle"
  /\ priorityQueue = <<>>
  /\ pq_order = "asc"
  /\ pq_entered = <<>>
  /\ pq_removed = <<>>
  /\ pq_last = [op |-> "none", run |-> <<>>]

ThrottleIdle ==
  /\ th_wait = -1
  /\ th_now = 1
  /\ th_last = 0
  /\ th_timeout = [armed |-> FALSE, due |-> 0, now |-> 0, args |-> 0]
  /\ th_calls = 0
  /\ th_invoked = <<>>

MemoizeIdle ==
  /\ m_pc = "idle"
  /\ cache = {}
  /\ m_calls = <<>>
  /\ m_invoked = <<>>

DebounceIdle ==
  /\ db_wait = -1
  /\ db_now = 1
  /\ db_timeout = [armed |-> FALSE, due |-> 0, args |-> 0]
  /\ db_calls = <<>>
  /\ db_invoked = <<>>

\* A mutant of RetryInvoke: the sleep of line 58 is not awaited.
RetryInvokeDuringSleep ==
  /\ r_pc \in {"while", "sleep"}
  /\ attempt < max_attempts
  /\ r_invoked' = r_invoked + 1
  /\ r_pc' = "await_op"
  /\ UNCHANGED <<max_attempts, initial_delay, max_delay, backoff_factor,
                 attempt, delay, r_outcomes, r_slept, r_result>>
  /\ RetryOnly

\* line 51 (test true) and the call of line 52
RetryInvoke ==
  /\ r_pc = "while"
  /\ attempt < max_attempts
  /\ r_invoked' = r_invoked + 1
  /\ r_pc' = "await_op"
  /\ UNCHANGED <<max_attempts, initial_delay, max_delay, backoff_factor,
                 attempt, delay, r_outcomes, r_slept, r_result>>
  /\ RetryOnly

\* A mutant of RetrySettle: a success does not end the loop.
RetrySettleNoReturnOnOk(o) ==
  /\ r_pc = "await_op"
  /\ r_outcomes' = Append(r_outcomes, o)
  /\ IF o.kind = "rejected"
       THEN /\ r_result' = o
            /\ r_pc' = "done"
            /\ UNCHANGED <<attempt, r_slept>>
       ELSE /\ attempt' = attempt + 1
            /\ IF attempt' = max_attempts
                 THEN /\ r_result' = o
                      /\ r_pc' = "done"
                      /\ UNCHANGED r_slept
                 ELSE /\ r_pc' = "sleep"
                      /\ r_slept' = Append(r_slept, delay)
                      /\ UNCHANGED r_result
  /\ UNCHANGED <<max_attempts, initial_delay, max_delay, backoff_factor,
                 delay, r_invoked>>
  /\ RetryOnly

\* A mutant of RetrySettle: exhaustion reports a synthesized error.
RetrySettleSyntheticError(o) ==
  /\ r_pc = "await_op"
  /\ r_outcomes' = Append(r_outcomes, o)
  /\ IF o.kind = "rejected" \/ o.kind = "ok"
       THEN /\ r_result' = o
            /\ r_pc' = "done"
            /\ UNCHANGED <<attempt, r_slept>>
       ELSE /\ attempt' = attempt + 1
            /\ IF attempt' = max_attempts
                 THEN /\ r_result' = Error("max_attempts_reached")
                      /\ r_pc' = "done"
                      /\ UNCHANGED r_slept
                 ELSE /\ r_pc' = "sleep"
                      /\ r_slept' = Append(r_slept, delay)
                      /\ UNCHANGED r_result
  /\ UNCHANGED <<max_attempts, initial_delay, max_delay, backoff_factor,
                 delay, r_invoked>>
  /\ RetryOnly

\* The awaited operation settles with o: lines 52-58.  A rejection is
\* thrown at the await, which no try block encloses: the promise retry
\* returned rejects with it.
RetrySettle(o) ==
  /\ r_pc = "await_op"
  /\ r_outcomes' = Append(r_outcomes, o)
  /\ IF o.kind = "rejected"
       THEN /\ r_result' = o
            /\ r_pc' = "done"
            /\ UNCHANGED <<attempt, r_slept>>
       ELSE IF o.kind = "ok"
         THEN /\ r_result' = o
              /\ r_pc' = "done"
              /\ UNCHANGED <<attempt, r_slept>>
         ELSE /\ attempt' = attempt + 1
              /\ IF attempt' = max_attempts
                   THEN /\ r_result' = o
                        /\ r_pc' = "done"
                        /\ UNCHANGED r_slept
                   ELSE /\ r_pc' = "sleep"
                        /\ r_slept' = Append(r_slept, delay)
                        /\ UNCHANGED r_result
  /\ UNCHANGED <<max_attempts, initial_delay, max_delay, backoff_factor,
                 delay, r_invoked>>
  /\ RetryOnly

\* The timer of sleep(delay) fires: line 59, then back to the loop test.
RetryWake ==
  /\ r_pc = "sleep"
  /\ delay' = Min(delay * backoff_factor, max_delay)
  /\ r_pc' = "while"
  /\ UNCHANGED <<max_attempts, initial_delay, max_delay, backoff_factor,
                 attempt, r_invoked, r_outcomes, r_slept, r_result>>
  /\ RetryOnly

\* A mutant of RetryExhausted: the loop's exit raises.
RetryExhaustedRejects ==
  /\ r_pc = "while"
  /\ ~(attempt < max_attempts)
  /\ r_result' = Rejected("max_attempts_reached")
  /\ r_pc' = "done"
  /\ UNCHANGED <<max_attempts, initial_delay, max_delay, backoff_factor,
                 attempt, delay, r_invoked, r_outcomes, r_slept>>
  /\ RetryOnly

\* line 51 (test false) and line 62
RetryExhausted ==
  /\ r_pc = "while"
  /\ ~(attempt < max_attempts)
  /\ r_result' = Error("max_attempts_reached")
  /\ r_pc' = "done"
  /\ UNCHANGED <<max_attempts, initial_delay, max_delay, backoff_factor,
                 attempt, delay, r_invoked, r_outcomes, r_slept>>
  /\ RetryOnly

RetryNext ==
  \/ RetryInvoke
  \/ \E o \in RetryOutcomes : RetrySettle(o)
  \/ RetryWake
  \/ RetryExhausted

(***************************************************************************)
(* Claims about AsyncResult.retry                                          *)
(***************************************************************************)
\* The invocations so far are k failure values followed by one success.
FailsThenSucceeds(k) ==
  /\ Len(r_outcomes) >= k + 1
  /\ \A j \in 1..k : r_outcomes[j].kind = "error"
  /\ r_outcomes[k + 1].kind = "ok"

\* C1: when the operation returns a failure value on its first k
\* invocations (k < max_attempts) and a success on invocation k+1, retry
\* has invoked it exactly k+1 times, has returned that success, and
\* invokes nothing afterwards (it is done).
C1_RetryStopsAtFirstSuccess ==
  \A k \in 0..MaxAttempts :
    (k < max_attempts /\ FailsThenSucceeds(k)) =>
      /\ r_invoked = k + 1
      /\ Len(r_outcomes) = k + 1
      /\ r_pc = "done"
      /\ r_result = r_outcomes[k + 1]

C1_Witness ==
  /\ max_attempts = 3
  /\ FailsThenSucceeds(2)
  /\ r_pc = "done"
  /\ r_result.kind = "ok"

\* The operation returned a failure value on every invocation, and the
\* call has returned.
AlwaysFailed ==
  /\ r_pc = "done"
  /\ max_attempts >= 1
  /\ \A j \in 1..Len(r_outcomes) : r_outcomes[j].kind = "error"

\* C2: when every invocation returns a failure value, retry invokes the
\* operation exactly max_attempts times and returns the failure value of
\* the last invocation, not "max_attempts_reached".
C2_RetryReturnsLastFailure ==
  AlwaysFailed =>
    /\ r_invoked = max_attempts
    /\ Len(r_outcomes) = max_attempts
    /\ r_result = r_outcomes[max_attempts]
    /\ r_result # Error("max_attempts_reached")

C2_Witness ==
  /\ AlwaysFailed
  /\ max_attempts = 3
  /\ r_outcomes[1] # r_outcomes[3]
  /\ r_result = r_outcomes[3]

\* Some attempt raised: the operation threw, or its promise rejected.
SomeAttemptRaised ==
  \E k \in 1..Len(r_outcomes) : r_outcomes[k].kind = "rejected"

\* C20: when the operation raises on some attempt, the promise retry
\* returned does not reject: the call settles with a failure value.
C20_RaiseBecomesFailureValue ==
  (r_pc = "done" /\ SomeAttemptRaised) => r_result.kind = "error"

\* C33: the attempts of retry are totally ordered: at most one invocation
\* of the operation is in flight, and an attempt is invoked only when
\* every earlier attempt has settled and the sleep that follows it has
\* elapsed.
C33_OneAttemptAtATime ==
  /\ [](/\ r_invoked - Len(r_outcomes) \in {0, 1}
        /\ (r_invoked - Len(r_outcomes) = 1) <=> (r_pc = "await_op"))
  /\ [][r_invoked' # r_invoked =>
          /\ r_invoked' = r_invoked + 1
          /\ r_pc = "while"
          /\ Len(r_outcomes) = r_invoked
          /\ Len(r_slept) = r_invoked]_vars
  /\ [][(r_pc = "sleep" /\ r_pc' # "sleep") =>
          (r_pc' = "while" /\ r_invoked' = r_invoked)]_vars

C33_Witness ==
  /\ r_pc = "await_op"
  /\ r_invoked = 3
  /\ Len(r_outcomes) = 2
  /\ Len(r_slept) = 2

\* C36: called with max_attempts = 0, retry never invokes the operation
\* and settles with a failure value: the loop test fails at once and the
\* call returns the failure "max_attempts_reached".
C36_ZeroAttemptsStillFails ==
  max_attempts = 0 =>
    /\ r_invoked = 0
    /\ r_pc \in {"while", "done"}
    /\ r_pc = "while" => ~(attempt < max_attempts)
    /\ r_pc = "done" => r_result = Error("max_attempts_reached")

C36_Witness ==
  /\ max_attempts = 0
  /\ r_pc = "done"
  /\ r_invoked = 0
  /\ r_result = Error("max_attempts_reached")

(***************************************************************************)
(* with_timeout(promise, timeoutMs) of utils.ts and                        *)
(* AsyncResult.with_timeout(operation, timeout_ms) of result.ts.           *)
(*                                                                         *)
(* clock is the time in milliseconds and timers the pending setTimeout     *)
(* timers in the order they were armed; a timer fires once clock has       *)
(* reached its due time, and timers due at the same time fire in the order *)
(* they were armed.  The promise reactions a timer callback queues run     *)
(* before the next timer fires.                                            *)
(*                                                                         *)
(* The operation settles, t_opDelay after it was started, with             *)
(* t_opOutcome.  utils.with_timeout is handed a promise, so the operation  *)
(* was started by the caller before the call ("caller" -> "created"), and  *)
(* time may pass before the call; AsyncResult.with_timeout arms its timer  *)
(* first (line 78) and then starts the operation (line 81).                *)
(*   t_callAt   the time of the call                                       *)
(*   t_opAt     the time the operation settled                             *)
(*   t_opFirst  the operation settled while the call's timer was pending   *)
(***************************************************************************)
UtilsOutcomes ==
  {Fulfilled(v) : v \in OkValues} \cup {Rejected(x) : x \in Thrown}

AsyncResultOutcomes ==
  {Fulfilled(Ok(v)) : v \in OkValues} \cup {Fulfilled(Error(e)) : e \in ErrValues}
    \cup {Rejected(x) : x \in Thrown}

TimeoutInit ==
  /\ t_impl \in {"utils", "AsyncResult"}
  /\ timeout_ms \in 0..MaxTimeout
  /\ t_opDelay \in 0..(MaxTimeout + 1)
  /\ t_opOutcome \in (IF t_impl = "utils" THEN UtilsOutcomes
                                          ELSE AsyncResultOutcomes)
  /\ t_pc = "caller"
  /\ clock = 0
  /\ timers = <<>>
  /\ t_op = Pending
  /\ t_result = Pending
  /\ t_callAt = 0
  /\ t_opAt = 0
  /\ t_opFirst = FALSE

\* sleep(ms): utils.ts lines 8-9
Sleep(ms, who) == [due |-> clock + ms, who |-> who]

TimerPending(who) == \E i \in 1..Len(timers) : timers[i].who = who

IsDue(i) == timers[i].due <= clock

\* The timer that fires next: the first armed among those due.
NextTimer == CHOOSE i \in 1..Len(timers) :
               IsDue(i) /\ \A j \in 1..(i - 1) : ~IsDue(j)

RemoveAt(s, i) == SubSeq(s, 1, i - 1) \o SubSeq(s, i + 1, Len(s))

\* utils.ts lines 68-78 when the promise wins the race: a value goes
\* through safe.ok (line 75), a rejection is caught (line 76) and reported
\* as "timeout" (line 77).
UtilsOnOperation(p) ==
  IF p.kind = "fulfilled" THEN Fulfilled(Ok(p.value))
                          ELSE Fulfilled(Error("timeout"))

\* utils.ts lines 71-73 and 76-77: the timer's reaction throws, the race
\* rejects, the catch block returns the "timeout" failure.
UtilsOnTimer == Fulfilled(Error("timeout"))

\* result.ts line 81 when the operation wins the race: the async function
\* returns the race, so it settles as the operation did, rejection included.
AsyncResultOnOperation(p) == p

\* result.ts lines 78-81 when the timer wins the race.
AsyncResultOnTimer == Fulfilled(Error("timeout"))

OnOperation(p) ==
  IF t_impl = "utils" THEN UtilsOnOperation(p) ELSE AsyncResultOnOperation(p)

OnTimer == IF t_impl = "utils" THEN UtilsOnTimer ELSE AsyncResultOnTimer

\* The caller of utils.with_timeout creates the promise it will pass
\* (part_000 line 48: sleep(5000).then(...)).
UtilsCreatePromise ==
  /\ t_impl = "utils"
  /\ t_pc = "caller"
  /\ timers' = Append(timers, Sleep(t_opDelay, "op"))
  /\ t_pc' = "created"
  /\ UNCHANGED <<t_impl, timeout_ms, t_opDelay, t_opOutcome, clock, t_op,
                 t_result, t_callAt, t_opAt, t_opFirst>>
  /\ TimeoutOnly

\* utils.with_timeout(promise, timeoutMs), lines 68-74, up to the await.
\* A promise that has already settled wins the race: its reaction is
\* queued at once, before any timer can fire.
UtilsWithTimeout ==
  /\ t_impl = "utils"
  /\ t_pc = "created"
  /\ timers' = Append(timers, Sleep(timeout_ms, "timeout"))
  /\ t_callAt' = clock
  /\ IF t_op.kind = "pending"
       THEN /\ t_pc' = "racing"
            /\ UNCHANGED <<t_result, t_opFirst>>
       ELSE /\ t_pc' = "done"
            /\ t_result' = UtilsOnOperation(t_op)
            /\ t_opFirst' = TRUE
  /\ UNCHANGED <<t_impl, timeout_ms, t_opDelay, t_opOutcome, clock, t_op,
                 t_opAt>>
  /\ TimeoutOnly

\* AsyncResult.with_timeout(operation, timeout_ms), lines 78-81: the timer
\* is armed, then the operation is called.
AsyncResultWithTimeout ==
  /\ t_impl = "AsyncResult"
  /\ t_pc = "caller"
  /\ timers' = timers \o <<Sleep(timeout_ms, "timeout"), Sleep(t_opDelay, "op")>>
  /\ t_callAt' = clock
  /\ t_pc' = "racing"
  /\ UNCHANGED <<t_impl, timeout_ms, t_opDelay, t_opOutcome, clock, t_op,
                 t_result, t_opAt, t_opFirst>>
  /\ TimeoutOnly

\* A mutant of FireOperation: an operation that settles after the race
\* was decided replaces the result.
FireOperationLastWins ==
  /\ \E i \in 1..Len(timers) : IsDue(i)
  /\ timers[NextTimer].who = "op"
  /\ timers' = RemoveAt(timers, NextTimer)
  /\ t_op' = t_opOutcome
  /\ t_opAt' = clock
  /\ IF t_pc \in {"racing", "done"}
       THEN /\ t_result' = OnOperation(t_opOutcome)
            /\ t_pc' = "done"
            /\ t_opFirst' = TimerPending("timeout")
       ELSE UNCHANGED <<t_result, t_pc, t_opFirst>>
  /\ UNCHANGED <<t_impl, timeout_ms, t_opDelay, t_opOutcome, clock, t_callAt>>
  /\ TimeoutOnly

\* The operation settles.  If the race is on and not yet decided, the
\* operation decides it.
FireOperation ==
  /\ \E i \in 1..Len(timers) : IsDue(i)
  /\ timers[NextTimer].who = "op"
  /\ timers' = RemoveAt(timers, NextTimer)
  /\ t_op' = t_opOutcome
  /\ t_opAt' = clock
  /\ IF t_pc = "racing"
       THEN /\ t_result' = OnOperation(t_opOutcome)
            /\ t_pc' = "done"
            /\ t_opFirst' = TimerPending("timeout")
       ELSE UNCHANGED <<t_result, t_pc, t_opFirst>>
  /\ UNCHANGED <<t_impl, timeout_ms, t_opDelay, t_opOutcome, clock, t_callAt>>
  /\ TimeoutOnly

\* The timer of the call fires.  If the race is not yet decided, the timer
\* decides it.
FireTimeout ==
  /\ \E i \in 1..Len(timers) : IsDue(i)
  /\ timers[NextTimer].who = "timeout"
  /\ timers' = RemoveAt(timers, NextTimer)
  /\ IF t_pc = "racing"
       THEN /\ t_result' = OnTimer
            /\ t_pc' = "done"
       ELSE UNCHANGED <<t_result, t_pc>>
  /\ UNCHANGED <<t_impl, timeout_ms, t_opDelay, t_opOutcome, clock, t_op,
                 t_callAt, t_opAt, t_opFirst>>
  /\ TimeoutOnly

\* A millisecond passes: no timer is due, and some timer is pending.
Tick ==
  /\ timers # <<>>
  /\ \A i \in 1..Len(timers) : ~IsDue(i)
  /\ clock' = clock + 1
  /\ UNCHANGED <<t_impl, timeout_ms, t_opDelay, t_opOutcome, t_pc, timers,
                 t_op, t_result, t_callAt, t_opAt, t_opFirst>>
  /\ TimeoutOnly

TimeoutNext ==
  \/ UtilsCreatePromise
  \/ UtilsWithTimeout
  \/ AsyncResultWithTimeout
  \/ FireOperation
  \/ FireTimeout
  \/ Tick

(***************************************************************************)
(* Claims about with_timeout                                               *)
(***************************************************************************)
\* The reports that carry the settlement p of the operation itself: its
\* value as a success (utils wraps a plain value, AsyncResult is handed a
\* Result), its rejection as a failure value or as a rejection.
OwnOutcome(p) ==
  IF p.kind = "rejected"
    THEN {Fulfilled(Error(p.reason)), Rejected(p.reason)}
    ELSE IF t_impl = "utils" THEN {Fulfilled(Ok(p.value))} ELSE {p}

\* The operation settled strictly before the timeout elapsed.
SettledBeforeTimeout ==
  /\ t_op.kind # "pending"
  /\ t_opAt < t_callAt + timeout_ms

\* C3: once with_timeout has settled, it reports the operation's own
\* outcome if the operation settled strictly before timeout_ms elapsed and
\* the "timeout" failure in every other case, a settlement exactly at
\* timeout_ms included.
C3_OwnOutcomeIffStrictlyBefore ==
  t_pc = "done" =>
    IF SettledBeforeTimeout
      THEN t_result \in OwnOutcome(t_op)
      ELSE t_result = Fulfilled(Error("timeout"))

\* The operation failed: it yielded a failure value, or it rejected.
OperationFailed ==
  \/ t_op.kind = "rejected"
  \/ t_op.kind = "fulfilled" /\ t_impl = "AsyncResult" /\ t_op.value.kind = "error"

OwnFailure ==
  IF t_op.kind = "rejected" THEN Fulfilled(Error(t_op.reason)) ELSE t_op

\* C4: when the operation fails before the timer fires, with_timeout
\* returns a failure value carrying the operation's own failure; it
\* neither reports "timeout" nor rejects.  For both implementations.
C4_OwnFailureUnchanged ==
  (t_pc = "done" /\ t_opFirst /\ OperationFailed) => t_result = OwnFailure

\* C24: once with_timeout has reported "timeout", the operation is left
\* running and may settle later; its settlement, a value or a failure,
\* never changes the result already reported, which stays a failure value.
C24_LateSettlementDiscarded ==
  [][(t_pc = "done" /\ t_result = Fulfilled(Error("timeout")))
       => t_result' = t_result]_vars

C24_Witness ==
  /\ t_pc = "done"
  /\ t_result = Fulfilled(Error("timeout"))
  /\ ~t_opFirst
  /\ t_op.kind = "rejected"
  /\ t_opAt > t_callAt + timeout_ms

\* C37: when the operation settles before the timer, no timer armed by
\* the call is still pending once the call has returned its result.
C37_NoTimerLeftPending ==
  (t_pc = "done" /\ t_opFirst) => ~TimerPending("timeout")

(***************************************************************************)
(* make_cancelable(promise), utils.ts lines 84-107.                        *)
(*   c_promise       the wrapped promise                                   *)
(*   isCanceled      the flag of line 85                                   *)
(*   c_chain         the reactions of promise.then(..).catch(..):          *)
(*                   "waiting" the promise is pending, "then" the reaction *)
(*                   of line 89 is queued, "catch" the reaction of line 94 *)
(*                   is queued, "done" the chain has run                   *)
(*   wrappedPromise  the handle (line 87)                                  *)
(*   c_cancelCalls   the calls of cancel so far                            *)
(*   c_canceledFirst cancel was called while the promise was pending       *)
(*   c_awaiting      the observers suspended in `await handle.promise`     *)
(*   c_seen          what each observer's await returned                   *)
(***************************************************************************)
CancelableOutcomes ==
  {Fulfilled(v) : v \in OkValues} \cup {Rejected(x) : x \in Thrown}

CancelInit ==
  /\ c_promise = Pending
  /\ isCanceled = FALSE
  /\ c_chain = "waiting"
  /\ wrappedPromise = Pending
  /\ c_cancelCalls = 0
  /\ c_canceledFirst = FALSE
  /\ c_awaiting = {}
  /\ c_seen = [o \in Observers |-> Pending]

\* The wrapped promise settles; its first reaction is queued.
PromiseSettles(p) ==
  /\ c_chain = "waiting"
  /\ c_promise' = p
  /\ c_chain' = "then"
  /\ UNCHANGED <<isCanceled, wrappedPromise, c_cancelCalls, c_canceledFirst,
                 c_awaiting, c_seen>>
  /\ CancelOnly

\* The reaction of .then, lines 89-93: on a value, the handler runs; a
\* rejection passes on to the .catch.
ThenReaction ==
  /\ c_chain = "then"
  /\ IF c_promise.kind = "fulfilled"
       THEN /\ c_chain' = "done"
            /\ wrappedPromise' = IF ~isCanceled THEN Fulfilled(Ok(c_promise.value))
                                                ELSE wrappedPromise
       ELSE /\ c_chain' = "catch"
            /\ UNCHANGED wrappedPromise
  /\ UNCHANGED <<c_promise, isCanceled, c_cancelCalls, c_canceledFirst,
                 c_awaiting, c_seen>>
  /\ CancelOnly

\* The reaction of .catch, lines 94-98.
CatchReaction ==
  /\ c_chain = "catch"
  /\ c_chain' = "done"
  /\ wrappedPromise' = IF ~isCanceled THEN Fulfilled(Error("canceled"))
                                      ELSE wrappedPromise
  /\ UNCHANGED <<c_promise, isCanceled, c_cancelCalls, c_canceledFirst,
                 c_awaiting, c_seen>>
  /\ CancelOnly

\* A mutant of Cancel: a cancel redirects a handle that has already
\* delivered.
CancelRedirectsDelivered ==
  /\ c_cancelCalls < MaxCancelCalls
  /\ isCanceled' = TRUE
  /\ c_cancelCalls' = c_cancelCalls + 1
  /\ c_canceledFirst' = (c_canceledFirst \/ c_promise = Pending)
  /\ wrappedPromise' = IF wrappedPromise = Pending THEN wrappedPromise
                                                   ELSE Fulfilled(Error("canceled"))
  /\ UNCHANGED <<c_promise, c_chain, c_awaiting, c_seen>>
  /\ CancelOnly

\* A mutant of Cancel: cancel toggles the flag.
CancelToggles ==
  /\ c_cancelCalls < MaxCancelCalls
  /\ isCanceled' = ~isCanceled
  /\ c_cancelCalls' = c_cancelCalls + 1
  /\ c_canceledFirst' = (c_canceledFirst \/ c_promise = Pending)
  /\ UNCHANGED <<c_promise, c_chain, wrappedPromise, c_awaiting, c_seen>>
  /\ CancelOnly

\* cancel(), lines 103-105.
Cancel ==
  /\ c_cancelCalls < MaxCancelCalls
  /\ isCanceled' = TRUE
  /\ c_cancelCalls' = c_cancelCalls + 1
  /\ c_canceledFirst' = (c_canceledFirst \/ c_promise = Pending)
  /\ UNCHANGED <<c_promise, c_chain, wrappedPromise, c_awaiting, c_seen>>
  /\ CancelOnly

\* An observer awaits the handle (part_000 line 57).
CancelAwait(o) ==
  /\ o \notin c_awaiting
  /\ c_seen[o] = Pending
  /\ c_awaiting' = c_awaiting \cup {o}
  /\ UNCHANGED <<c_promise, isCanceled, c_chain, wrappedPromise,
                 c_cancelCalls, c_canceledFirst, c_seen>>
  /\ CancelOnly

\* The handle has settled: an awaiting observer resumes with its outcome.
CancelDeliver(o) ==
  /\ o \in c_awaiting
  /\ wrappedPromise # Pending
  /\ c_awaiting' = c_awaiting \ {o}
  /\ c_seen' = [c_seen EXCEPT ![o] = wrappedPromise]
  /\ UNCHANGED <<c_promise, isCanceled, c_chain, wrappedPromise,
                 c_cancelCalls, c_canceledFirst>>
  /\ CancelOnly

CancelNext ==
  \/ \E p \in CancelableOutcomes : PromiseSettles(p)
  \/ ThenReaction
  \/ CatchReaction
  \/ Cancel
  \/ \E o \in Observers : CancelAwait(o)
  \/ \E o \in Observers : CancelDeliver(o)

(***************************************************************************)
(* Claims about make_cancelable                                            *)
(***************************************************************************)
\* C5: if cancel is invoked before the wrapped operation settles, the
\* handle settles with the "canceled" failure: once the operation has
\* settled and its reactions have run, the handle is not pending.
C5_CanceledIsDelivered ==
  (c_canceledFirst /\ c_chain = "done") =>
    wrappedPromise = Fulfilled(Error("canceled"))

\* C6: if the wrapped operation rejects and cancel was never invoked, the
\* handle delivers the operation's own failure; "canceled" is delivered
\* only when cancel was invoked.
C6_RejectionDeliversOwnFailure ==
  /\ (c_promise.kind = "rejected" /\ c_cancelCalls = 0 /\ c_chain = "done") =>
       wrappedPromise = Fulfilled(Error(c_promise.reason))
  /\ wrappedPromise = Fulfilled(Error("canceled")) => c_cancelCalls > 0

\* C7: once the wrapped operation has succeeded with v and the handle has
\* delivered ok(v), the handle and every observer it has been delivered to
\* hold ok(v), whatever calls of cancel follow.
C7_DeliveredSuccessIsFinal ==
  (c_promise.kind = "fulfilled" /\ wrappedPromise # Pending) =>
    /\ wrappedPromise = Fulfilled(Ok(c_promise.value))
    /\ \A o \in Observers : c_seen[o] \in {Pending, wrappedPromise}

C7_Witness ==
  /\ c_promise.kind = "fulfilled"
  /\ wrappedPromise = Fulfilled(Ok(c_promise.value))
  /\ c_cancelCalls = 2
  /\ \E o \in Observers : c_seen[o] = wrappedPromise

\* C21: if the wrapped operation eventually settles, the call eventually
\* settles: whatever the cancel calls, the handle of make_cancelable does
\* not stay pending forever.
C21_CallEventuallySettles == <>(wrappedPromise # Pending)

\* C34: if the wrapped operation has already succeeded when cancel is
\* first invoked, the handle delivers the operation's value, even when
\* cancel runs before the reaction to that settlement.
C34_SettledFirstDeliversOutcome ==
  (c_promise.kind = "fulfilled" /\ ~c_canceledFirst /\ c_chain = "done") =>
    wrappedPromise = Fulfilled(Ok(c_promise.value))

\* C35: the cancel flag starts false, only a call of cancel changes it,
\* it goes from false to true and never back; a further call of cancel
\* changes nothing, and no call of cancel touches the wrapped promise, its
\* reactions or the handle.
C35_CancelFlagMonotone ==
  /\ [](c_cancelCalls = 0 => ~isCanceled)
  /\ [][isCanceled => isCanceled']_vars
  /\ [][isCanceled' # isCanceled => c_cancelCalls' = c_cancelCalls + 1]_vars
  /\ [][c_cancelCalls' # c_cancelCalls =>
          /\ isCanceled'
          /\ UNCHANGED <<c_promise, c_chain, wrappedPromise, c_awaiting, c_seen>>]_vars

C35_Witness ==
  /\ c_cancelCalls = 2
  /\ isCanceled
  /\ c_promise = Pending
  /\ wrappedPromise = Pending

(***************************************************************************)
(* create_deferred(), utils.ts lines 112-126.                              *)
(*   d_promise   the promise of line 116                                   *)
(*   d_calls     the calls of resolve and reject so far, in order          *)
(*   d_awaiting  the observers suspended in `await deferred.promise`       *)
(*   d_early     the observers that began to await while it was pending    *)
(*   d_seen      what each observer's await produced                       *)
(***************************************************************************)
DeferredCalls ==
  {[fn |-> "resolve", arg |-> v] : v \in OkValues}
    \cup {[fn |-> "reject", arg |-> x] : x \in Thrown}

DeferredInit ==
  /\ d_promise = Pending
  /\ d_calls = <<>>
  /\ d_awaiting = {}
  /\ d_early = {}
  /\ d_seen = [o \in Observers |-> Pending]

\* What a call settles a pending promise with.
Settlement(c) ==
  IF c.fn = "resolve" THEN Fulfilled(c.arg) ELSE Rejected(c.arg)

\* A mutant of Resolve: a later resolve replaces the settled outcome.
ResolveOverwrites(v) ==
  /\ Len(d_calls) < MaxCalls
  /\ d_calls' = Append(d_calls, [fn |-> "resolve", arg |-> v])
  /\ d_promise' = Fulfilled(v)
  /\ UNCHANGED <<d_awaiting, d_early, d_seen>>
  /\ DeferredOnly

\* resolve(value), line 123: the resolving function the promise of line
\* 116 handed out (line 117).  It settles a pending promise and does
\* nothing to a settled one.
Resolve(v) ==
  /\ Len(d_calls) < MaxCalls
  /\ d_calls' = Append(d_calls, [fn |-> "resolve", arg |-> v])
  /\ d_promise' = IF d_promise = Pending THEN Fulfilled(v) ELSE d_promise
  /\ UNCHANGED <<d_awaiting, d_early, d_seen>>
  /\ DeferredOnly

\* A mutant of Reject: a later reject replaces the settled outcome.
RejectOverwrites(x) ==
  /\ Len(d_calls) < MaxCalls
  /\ d_calls' = Append(d_calls, [fn |-> "reject", arg |-> x])
  /\ d_promise' = Rejected(x)
  /\ UNCHANGED <<d_awaiting, d_early, d_seen>>
  /\ DeferredOnly

\* reject(reason), line 124: the rejecting function of the same promise
\* (line 118).
Reject(x) ==
  /\ Len(d_calls) < MaxCalls
  /\ d_calls' = Append(d_calls, [fn |-> "reject", arg |-> x])
  /\ d_promise' = IF d_promise = Pending THEN Rejected(x) ELSE d_promise
  /\ UNCHANGED <<d_awaiting, d_early, d_seen>>
  /\ DeferredOnly

\* An observer awaits the promise (part_000 line 68).
DeferredAwait(o) ==
  /\ o \notin d_awaiting
  /\ d_seen[o] = Pending
  /\ d_awaiting' = d_awaiting \cup {o}
  /\ d_early' = IF d_promise = Pending THEN d_early \cup {o} ELSE d_early
  /\ UNCHANGED <<d_promise, d_calls, d_seen>>
  /\ DeferredOnly

\* The promise has settled: an awaiting observer resumes with its outcome.
DeferredDeliver(o) ==
  /\ o \in d_awaiting
  /\ d_promise # Pending
  /\ d_awaiting' = d_awaiting \ {o}
  /\ d_seen' = [d_seen EXCEPT ![o] = d_promise]
  /\ UNCHANGED <<d_promise, d_calls, d_early>>
  /\ DeferredOnly

DeferredNext ==
  \/ \E v \in OkValues : Resolve(v)
  \/ \E x \in Thrown : Reject(x)
  \/ \E o \in Observers : DeferredAwait(o)
  \/ \E o \in Observers : DeferredDeliver(o)

(***************************************************************************)
(* Claims about create_deferred                                            *)
(***************************************************************************)
\* C8: over any sequence of calls of resolve and reject, the promise is
\* pending before the first call and afterwards holds what the first call
\* settled it with; later calls change nothing.
C8_FirstCallWins ==
  d_promise = IF d_calls = <<>> THEN Pending ELSE Settlement(d_calls[1])

C8_Witness ==
  /\ Len(d_calls) = 3
  /\ d_calls[1] = [fn |-> "resolve", arg |-> "v1"]
  /\ d_calls[2] = [fn |-> "resolve", arg |-> "v2"]
  /\ d_calls[3].fn = "reject"
  /\ d_promise = Fulfilled("v1")

\* C9: an observer has received something only if the promise has
\* settled, and what it received is the promise's settled outcome: all
\* observers receive the same outcome, whether they began to await before
\* or after the settlement.
C9_ObserversAgree ==
  \A o \in Observers :
    d_seen[o] # Pending => (d_promise # Pending /\ d_seen[o] = d_promise)

C9_Witness ==
  /\ Len(d_calls) >= 2
  /\ \E o1 \in d_early : \E o2 \in Observers \ d_early :
       /\ d_seen[o1] # Pending
       /\ d_seen[o2] = d_seen[o1]

(***************************************************************************)
(* sequence(operations), utils.ts lines 131-145.                           *)
(*   operations  what each operation of the list settles with when it is   *)
(*               invoked: a value, or a rejection (a throw included)       *)
(*   s_pc        "loop" at the head of the for loop (line 136), "await"    *)
(*               suspended in `await operation()` (line 138), "done"       *)
(*   s_next      the index of the operation the loop is at                 *)
(*   s_results   results (line 134)                                        *)
(*   s_invoked   the indices invoked so far, in order                      *)
(*   s_inflight  the indices invoked and not yet settled                   *)
(*   s_result    what the call returned                                    *)
(***************************************************************************)
SeqValues == {Str("v1"), Str("v2"), Error("e1")}
SeqThrown == {Str("x1"), ErrorObject("boom")}

OperationOutcomes ==
  {Fulfilled(v) : v \in SeqValues} \cup {Rejected(x) : x \in SeqThrown}

OperationLists ==
  UNION {[1..n -> OperationOutcomes] : n \in 0..MaxOps}

SequenceInit ==
  /\ operations \in OperationLists
  /\ s_pc = "loop"
  /\ s_next = 1
  /\ s_results = <<>>
  /\ s_invoked = <<>>
  /\ s_inflight = {}
  /\ s_result = Pending

\* A mutant of SequenceInvoke: the operations left are all started at once.
SequenceInvokeEager ==
  /\ s_pc = "loop"
  /\ s_next <= Len(operations)
  /\ s_invoked' = s_invoked \o [k \in 1..(Len(operations) - s_next + 1) |-> s_next + k - 1]
  /\ s_inflight' = s_inflight \cup (s_next..Len(operations))
  /\ s_pc' = "await"
  /\ UNCHANGED <<operations, s_next, s_results, s_result>>
  /\ SequenceOnly

\* line 136 (an operation is left) and the call of line 138
SequenceInvoke ==
  /\ s_pc = "loop"
  /\ s_next <= Len(operations)
  /\ s_invoked' = Append(s_invoked, s_next)
  /\ s_inflight' = s_inflight \cup {s_next}
  /\ s_pc' = "await"
  /\ UNCHANGED <<operations, s_next, s_results, s_result>>
  /\ SequenceOnly

\* A mutant of SequenceSettle: a value tagged as an error ends the run.
SequenceSettleStopsOnErrorValue ==
  /\ s_pc = "await"
  /\ s_inflight' = s_inflight \ {s_next}
  /\ IF operations[s_next].kind = "fulfilled"
        /\ operations[s_next].value # Error("e1")
       THEN /\ s_results' = Append(s_results, operations[s_next].value)
            /\ s_next' = s_next + 1
            /\ s_pc' = "loop"
            /\ UNCHANGED s_result
       ELSE /\ s_result' = Fulfilled(Error("e1"))
            /\ s_pc' = "done"
            /\ UNCHANGED <<s_results, s_next>>
  /\ UNCHANGED <<operations, s_invoked>>
  /\ SequenceOnly

\* A mutant of SequenceSettle: a failure is skipped and the loop goes on.
SequenceSettleContinues ==
  /\ s_pc = "await"
  /\ s_inflight' = s_inflight \ {s_next}
  /\ s_next' = s_next + 1
  /\ s_pc' = "loop"
  /\ s_results' = IF operations[s_next].kind = "fulfilled"
                    THEN Append(s_results, operations[s_next].value)
                    ELSE s_results
  /\ UNCHANGED <<operations, s_invoked, s_result>>
  /\ SequenceOnly

\* A mutant of SequenceSettle: a value is put at the front of results.
SequenceSettlePrepends ==
  /\ s_pc = "await"
  /\ s_inflight' = s_inflight \ {s_next}
  /\ IF operations[s_next].kind = "fulfilled"
       THEN /\ s_results' = <<operations[s_next].value>> \o s_results
            /\ s_next' = s_next + 1
            /\ s_pc' = "loop"
            /\ UNCHANGED s_result
       ELSE /\ s_result' = Fulfilled(Error(String(operations[s_next].reason)))
            /\ s_pc' = "done"
            /\ UNCHANGED <<s_results, s_next>>
  /\ UNCHANGED <<operations, s_invoked>>
  /\ SequenceOnly

\* The awaited operation settles: lines 138-141.
SequenceSettle ==
  /\ s_pc = "await"
  /\ s_inflight' = s_inflight \ {s_next}
  /\ IF operations[s_next].kind = "fulfilled"
       THEN /\ s_results' = Append(s_results, operations[s_next].value)
            /\ s_next' = s_next + 1
            /\ s_pc' = "loop"
            /\ UNCHANGED s_result
       ELSE /\ s_result' = Fulfilled(Error(String(operations[s_next].reason)))
            /\ s_pc' = "done"
            /\ UNCHANGED <<s_results, s_next>>
  /\ UNCHANGED <<operations, s_invoked>>
  /\ SequenceOnly

\* line 136 (no operation is left) and line 144
SequenceReturn ==
  /\ s_pc = "loop"
  /\ s_next > Len(operations)
  /\ s_result' = Fulfilled(Ok(s_results))
  /\ s_pc' = "done"
  /\ UNCHANGED <<operations, s_next, s_results, s_invoked, s_inflight>>
  /\ SequenceOnly

SequenceNext ==
  \/ SequenceInvoke
  \/ SequenceSettle
  \/ SequenceReturn

(***************************************************************************)
(* Claims about sequence                                                   *)
(***************************************************************************)
\* Operation i is the first of the list to fail.
FirstToFail(i) ==
  /\ operations[i].kind = "rejected"
  /\ \A j \in 1..(i - 1) : operations[j].kind = "fulfilled"

Invoked == {s_invoked[k] : k \in 1..Len(s_invoked)}

\* C10: if operation i is the first to fail, no operation with a greater
\* index is ever invoked, the call is over as soon as operation i has
\* settled, and it returns a failure, not a list of results.
C10_StopsAtFirstFailure ==
  \A i \in 1..Len(operations) :
    FirstToFail(i) =>
      /\ \A j \in Invoked : j <= i
      /\ (i \in Invoked /\ i \notin s_inflight) => s_pc = "done"
      /\ s_pc = "done" => s_result.value.kind = "error"

C10_Witness ==
  /\ Len(operations) = 3
  /\ FirstToFail(2)
  /\ operations[3].kind = "fulfilled"
  /\ s_pc = "done"
  /\ s_invoked = <<1, 2>>
  /\ s_result.value.kind = "error"

\* C11: the failure sequence returns is the failure the failing operation
\* produced, unchanged.
C11_FailurePassedThrough ==
  \A i \in 1..Len(operations) :
    (FirstToFail(i) /\ s_pc = "done") =>
      s_result = Fulfilled(Error(operations[i].reason))

\* C12: the operations are invoked in list order, and operation i+1 is
\* invoked only after operation i has settled: at most one operation is in
\* flight, and it is the one invoked last.
C12_OneAtATimeInOrder ==
  /\ Cardinality(s_inflight) <= 1
  /\ s_invoked = [k \in 1..Len(s_invoked) |-> k]
  /\ \A i \in s_inflight : i = Len(s_invoked)

C12_Witness ==
  /\ Len(operations) = 3
  /\ s_invoked = <<1, 2, 3>>
  /\ s_inflight = {3}

\* Every operation of the list succeeds.
AllSucceed == \A i \in 1..Len(operations) : operations[i].kind = "fulfilled"

\* C13: when every operation succeeds, sequence returns success with the
\* list of the operations' values in list order (the empty list for no
\* operations).
C13_ValuesInOrder ==
  (AllSucceed /\ s_pc = "done") =>
    s_result = Fulfilled(Ok([i \in 1..Len(operations) |-> operations[i].value]))

C13_Witness ==
  /\ AllSucceed
  /\ Len(operations) = 3
  /\ operations[1] # operations[3]
  /\ s_pc = "done"
  /\ s_result.value.kind = "ok"
  /\ Len(s_result.value.value) = 3

(***************************************************************************)
(* parallel(operations, concurrency), utils.ts lines 150-180.              *)
(*   p_operations  what each operation does when it is invoked: its        *)
(*                 promise fulfils, its promise rejects, or the call       *)
(*                 itself throws                                           *)
(*   p_pc          "spawn" in Array.from of line 172, which calls run_next *)
(*                 once per worker; "await" suspended in the await of line *)
(*                 171; "done" the call has returned (p_result)            *)
(*   currentIndex  the shared cursor (line 155), an index from 0           *)
(*   p_results     results (line 154); index i is position i + 1           *)
(*   p_workers     per worker started, the index it awaits, or -1 once its *)
(*                 run_next has returned                                   *)
(*   p_invoked     the indices invoked so far, in order                    *)
(*   p_inflight    the indices invoked and not yet settled                 *)
(*   p_settled     the indices whose promise has settled, in that order    *)
(***************************************************************************)
Throws(x) == [kind |-> "thrown", reason |-> x]

\* An array slot that was never written (new Array(n), line 154).
Hole == [type |-> "hole"]

ParallelOutcomes ==
  {Fulfilled(v) : v \in SeqValues} \cup {Rejected(x) : x \in SeqThrown}
    \cup {Throws(ErrorObject("boom"))}

ParallelLists ==
  UNION {[1..n -> ParallelOutcomes] : n \in 0..MaxOps}

NewArray(n) == [k \in 1..n |-> Hole]

ParallelInit ==
  /\ p_operations \in ParallelLists
  /\ concurrency \in 0..MaxConcurrency
  /\ p_pc = "spawn"
  /\ currentIndex = 0
  /\ p_results = NewArray(Len(p_operations))
  /\ p_workers = <<>>
  /\ p_invoked = <<>>
  /\ p_inflight = {}
  /\ p_settled = <<>>
  /\ p_result = Pending

\* A mutant of Workers: one worker per operation, whatever the limit.
WorkersUnbounded == Len(p_operations)

\* The number of workers: line 172.
Workers == Min(concurrency, Len(p_operations))

\* A mutant of StoreAt: the value goes to the first slot still empty.
StoreAtFirstFree(res, index, v) ==
  LET free == {k \in 1..Len(res) : res[k] = Hole}
      k == CHOOSE k \in free : \A j \in free : k <= j
  IN [res EXCEPT ![k] = v]

\* results[index] = v: lines 162 and 164.
StoreAt(res, index, v) == [res EXCEPT ![index + 1] = v]

\* A mutant of RunNext: the cursor moves two places per claim.
RECURSIVE RunNextSkips(_, _, _)
RunNextSkips(ci, res, inv) ==
  IF ci >= Len(p_operations)
    THEN [ci |-> ci + 1, res |-> res, inv |-> inv, at |-> -1]
    ELSE IF p_operations[ci + 1].kind = "thrown"
      THEN RunNextSkips(ci + 2, StoreAt(res, ci, p_operations[ci + 1].reason),
                        Append(inv, ci))
      ELSE [ci |-> ci + 2, res |-> res, inv |-> Append(inv, ci), at |-> ci]

\* A mutant of RunNext: the indices are claimed from the end of the list.
RECURSIVE RunNextFromEnd(_, _, _)
RunNextFromEnd(ci, res, inv) ==
  LET index == Len(p_operations) - 1 - ci
  IN IF ci >= Len(p_operations)
       THEN [ci |-> ci + 1, res |-> res, inv |-> inv, at |-> -1]
       ELSE IF p_operations[index + 1].kind = "thrown"
         THEN RunNextFromEnd(ci + 1,
                StoreAt(res, index, p_operations[index + 1].reason),
                Append(inv, index))
         ELSE [ci |-> ci + 1, res |-> res, inv |-> Append(inv, index),
               at |-> index]

\* run_next from its first line to its first suspension or its return
\* (lines 158-167), with the cursor at ci, results res and the invocations
\* inv so far: it claims an index; past the end it returns; otherwise it
\* invokes the operation.  A call that throws is caught at once (line 163)
\* and run_next goes on to the next index in the same step.  `at` is the
\* index the worker then awaits, or -1 when it has returned.
RECURSIVE RunNext(_, _, _)
RunNext(ci, res, inv) ==
  IF ci >= Len(p_operations)
    THEN [ci |-> ci + 1, res |-> res, inv |-> inv, at |-> -1]
    ELSE IF p_operations[ci + 1].kind = "thrown"
      THEN RunNext(ci + 1, StoreAt(res, ci, p_operations[ci + 1].reason),
                   Append(inv, ci))
      ELSE [ci |-> ci + 1, res |-> res, inv |-> Append(inv, ci), at |-> ci]

\* Array.from of line 172 starts one more worker.
ParallelSpawn ==
  /\ p_pc = "spawn"
  /\ Len(p_workers) < Workers
  /\ LET r == RunNext(currentIndex, p_results, p_invoked)
     IN /\ currentIndex' = r.ci
        /\ p_results' = r.res
        /\ p_invoked' = r.inv
        /\ p_workers' = Append(p_workers, r.at)
        /\ p_inflight' = p_inflight \cup (IF r.at >= 0 THEN {r.at} ELSE {})
  /\ UNCHANGED <<p_operations, concurrency, p_pc, p_settled, p_result>>
  /\ ParallelOnly

\* Every worker is started: the call suspends in line 171.
ParallelAwait ==
  /\ p_pc = "spawn"
  /\ Len(p_workers) >= Workers
  /\ p_pc' = "await"
  /\ UNCHANGED <<p_operations, concurrency, currentIndex, p_results,
                 p_workers, p_invoked, p_inflight, p_settled, p_result>>
  /\ ParallelOnly

\* A mutant of Captured: the slot keeps the settlement, not what it carries.
CapturedAsSettled(o) == o

\* What line 162 or line 164 stores for a settled operation: the value it
\* fulfilled with, or the caught error.
Captured(o) == IF o.kind = "fulfilled" THEN o.value ELSE o.reason

\* A mutant of ParallelSettle: the worker stores the outcome and returns
\* without running run_next again.
ParallelSettleStops(w) ==
  /\ p_pc = "await"
  /\ w \in 1..Len(p_workers)
  /\ p_workers[w] >= 0
  /\ LET i == p_workers[w]
     IN /\ p_results' = StoreAt(p_results, i, Captured(p_operations[i + 1]))
        /\ p_workers' = [p_workers EXCEPT ![w] = -1]
        /\ p_inflight' = p_inflight \ {i}
        /\ p_settled' = Append(p_settled, i)
  /\ UNCHANGED <<p_operations, concurrency, p_pc, currentIndex, p_invoked,
                 p_result>>
  /\ ParallelOnly

\* The operation worker w awaits settles: lines 162-167.  The outcome is
\* stored in the operation's slot and the worker runs run_next again.
ParallelSettle(w) ==
  /\ p_pc = "await"
  /\ w \in 1..Len(p_workers)
  /\ p_workers[w] >= 0
  /\ LET i == p_workers[w]
         stored == StoreAt(p_results, i, Captured(p_operations[i + 1]))
         r == RunNext(currentIndex, stored, p_invoked)
     IN /\ currentIndex' = r.ci
        /\ p_results' = r.res
        /\ p_invoked' = r.inv
        /\ p_workers' = [p_workers EXCEPT ![w] = r.at]
        /\ p_inflight' = (p_inflight \ {i}) \cup (IF r.at >= 0 THEN {r.at} ELSE {})
        /\ p_settled' = Append(p_settled, i)
  /\ UNCHANGED <<p_operations, concurrency, p_pc, p_result>>
  /\ ParallelOnly

\* A mutant of ParallelResult: a failed operation fails the whole call.
ParallelResultFailFast(res) ==
  LET failed == {k \in 1..Len(p_operations) : p_operations[k].kind # "fulfilled"}
  IN IF failed = {} THEN Fulfilled(Ok(res))
     ELSE Fulfilled(Error(String(
            p_operations[CHOOSE k \in failed : \A j \in failed : k <= j].reason)))

\* What the call returns once Promise.all has fulfilled: line 176.  No
\* run_next rejects (line 163 catches whatever the operation raises), so
\* the catch of lines 177-178 is never entered.
ParallelResult(res) == Fulfilled(Ok(res))

\* A mutant of ParallelReturn: the call returns when the first worker has
\* returned.
ParallelReturnOnFirst ==
  /\ p_pc = "await"
  /\ p_workers = <<>> \/ \E w \in 1..Len(p_workers) : p_workers[w] = -1
  /\ p_result' = ParallelResult(p_results)
  /\ p_pc' = "done"
  /\ UNCHANGED <<p_operations, concurrency, currentIndex, p_results,
                 p_workers, p_invoked, p_inflight, p_settled>>
  /\ ParallelOnly

\* Every worker has returned: Promise.all fulfils and the call returns.
ParallelReturn ==
  /\ p_pc = "await"
  /\ \A w \in 1..Len(p_workers) : p_workers[w] = -1
  /\ p_result' = ParallelResult(p_results)
  /\ p_pc' = "done"
  /\ UNCHANGED <<p_operations, concurrency, currentIndex, p_results,
                 p_workers, p_invoked, p_inflight, p_settled>>
  /\ ParallelOnly

ParallelNext ==
  \/ ParallelSpawn
  \/ ParallelAwait
  \/ \E w \in 1..MaxConcurrency : ParallelSettle(w)
  \/ ParallelReturn

\* The caller of part_000 lines 78-81: once sequence(operations) has
\* returned, it calls parallel on the same list.
CallParallel(c) ==
  /\ s_pc = "done"
  /\ p_pc = "idle"
  /\ p_operations' = operations
  /\ concurrency' = c
  /\ p_pc' = "spawn"
  /\ p_results' = NewArray(Len(operations))
  /\ UNCHANGED <<currentIndex, p_workers, p_invoked, p_inflight, p_settled,
                 p_result>>
  /\ ParallelOnly

SequenceThenParallelNext ==
  \/ SequenceInvoke
  \/ SequenceSettle
  \/ SequenceReturn
  \/ \E c \in 0..MaxConcurrency : CallParallel(c)
  \/ ParallelSpawn
  \/ ParallelAwait
  \/ \E w \in 1..MaxConcurrency : ParallelSettle(w)
  \/ ParallelReturn

(***************************************************************************)
(* Claims about parallel                                                   *)
(***************************************************************************)
\* What operation k of the list produces: its value, or its error.
OutcomeOf(k) ==
  IF p_operations[k].kind = "fulfilled" THEN p_operations[k].value
                                        ELSE p_operations[k].reason

PInvoked == {p_invoked[k] : k \in 1..Len(p_invoked)}

\* C14: with a limit of at least 1, the operations invoked and not yet
\* settled are never more than min(limit, length of the list).
C14_InFlightBounded ==
  concurrency >= 1 =>
    Cardinality(p_inflight) <= Min(concurrency, Len(p_operations))

C14_Witness ==
  /\ concurrency = 2
  /\ Len(p_operations) = 3
  /\ Len(p_invoked) = 3
  /\ Cardinality(p_inflight) = 2

\* C15: whatever the order in which the operations settle, slot i of the
\* list parallel returns holds the outcome of operation i.
C15_SlotsByPosition ==
  (p_pc = "done" /\ concurrency >= 1) =>
    /\ p_result.kind = "fulfilled"
    /\ p_result.value.kind = "ok"
    /\ Len(p_result.value.value) = Len(p_operations)
    /\ \A k \in 1..Len(p_operations) : p_result.value.value[k] = OutcomeOf(k)

C15_Witness ==
  /\ p_pc = "done"
  /\ concurrency = 3
  /\ Len(p_operations) = 3
  /\ p_settled = <<2, 0, 1>>
  /\ OutcomeOf(1) # OutcomeOf(3)
  /\ \A k \in 1..3 : p_result.value.value[k] = OutcomeOf(k)

\* Some operation of the list throws or rejects.
SomeFail == \E k \in 1..Len(p_operations) : p_operations[k].kind # "fulfilled"

\* C16: the call never returns a top-level failure; when some operation
\* throws or rejects (limit a positive integer), once the call has returned
\* every operation of the list has been invoked exactly once, each slot
\* holds its own operation's outcome, the failed operation's error
\* included, and the call returned success.
C16_FailuresCapturedInSlots ==
  /\ p_result # Pending =>
       (p_result.kind = "fulfilled" /\ p_result.value.kind = "ok")
  /\ (p_pc = "done" /\ concurrency >= 1 /\ SomeFail) =>
       /\ PInvoked = 0..(Len(p_operations) - 1)
       /\ Len(p_invoked) = Len(p_operations)
       /\ \A k \in 1..Len(p_operations) :
            /\ p_results[k] # Hole
            /\ p_result.value.value[k] = OutcomeOf(k)

C16_Witness ==
  /\ p_pc = "done"
  /\ concurrency = 1
  /\ Len(p_operations) = 3
  /\ p_operations[1].kind = "rejected"
  /\ p_operations[2].kind = "thrown"
  /\ p_operations[3].kind = "fulfilled"
  /\ p_result.value.kind = "ok"
  /\ p_result.value.value[3] = p_operations[3].value

\* C17: for a list of operations that all succeed and a limit of at least
\* 1, parallel returns what sequence returns on the same list.
C17_ParallelEqualsSequence ==
  (AllSucceed /\ s_pc = "done" /\ p_pc = "done" /\ concurrency >= 1) =>
    p_result = s_result

C17_Witness ==
  /\ AllSucceed
  /\ Len(operations) = 3
  /\ operations[1] # operations[2]
  /\ s_pc = "done"
  /\ p_pc = "done"
  /\ concurrency = 2
  /\ p_settled = <<1, 0, 2>>
  /\ p_result = s_result

\* C31: the shared cursor only increases, no index is claimed twice, and
\* once the call has returned (limit at least 1) every operation of the
\* list has been invoked exactly once.
C31_EachIndexClaimedOnce ==
  /\ [][currentIndex' >= currentIndex]_vars
  /\ [](/\ \A j, k \in 1..Len(p_invoked) : j # k => p_invoked[j] # p_invoked[k]
        /\ Len(p_invoked) = Min(currentIndex, Len(p_operations))
        /\ (p_pc = "done" /\ concurrency >= 1) =>
             PInvoked = 0..(Len(p_operations) - 1))

C31_Witness ==
  /\ p_pc = "done"
  /\ concurrency = 2
  /\ Len(p_operations) = 3
  /\ p_settled = <<1, 2, 0>>
  /\ Len(p_invoked) = 3
  /\ currentIndex = 5

\* C32: parallel is work-conserving: the worker whose operation settles
\* while unclaimed operations remain invokes the next one in the same
\* step, so while the call is suspended and unclaimed operations remain,
\* exactly min(limit, length of the list) operations are in flight.
C32_WorkConserving ==
  /\ []((p_pc = "await" /\ concurrency >= 1
           /\ currentIndex < Len(p_operations)) =>
          Cardinality(p_inflight) = Min(concurrency, Len(p_operations)))
  /\ [][(p_settled' # p_settled /\ currentIndex < Len(p_operations)) =>
          Len(p_invoked') > Len(p_invoked)]_vars

C32_Witness ==
  /\ p_pc = "await"
  /\ concurrency = 1
  /\ Len(p_operations) = 3
  /\ p_settled = <<0>>
  /\ p_inflight = {1}
  /\ currentIndex = 2

\* The number of times slot i (0-based) has been written: once when its
\* operation settled (lines 162, 164 after the await), once when the call
\* of its operation threw (line 164).
Writes(i) ==
  Cardinality({k \in 1..Len(p_settled) : p_settled[k] = i})
    + (IF p_operations[i + 1].kind = "thrown"
         THEN Cardinality({k \in 1..Len(p_invoked) : p_invoked[k] = i})
         ELSE 0)

\* C38: with a limit of at least 1, when the call settles no operation is
\* in flight and every result slot has been written exactly once.
C38_ReturnsAfterAllSettled ==
  (p_result # Pending /\ concurrency >= 1) =>
    /\ p_inflight = {}
    /\ \A i \in 0..(Len(p_operations) - 1) :
         /\ Writes(i) = 1
         /\ p_results[i + 1] # Hole

C38_Witness ==
  /\ p_result # Pending
  /\ concurrency = 3
  /\ Len(p_operations) = 3
  /\ p_settled = <<2, 1, 0>>
  /\ p_inflight = {}

\* C39: the operations are invoked in increasing index order, for every
\* limit and every order of settlement.
C39_InvokedInIndexOrder ==
  \A k \in 1..(Len(p_invoked) - 1) : p_invoked[k] < p_invoked[k + 1]

C39_Witness ==
  /\ p_pc = "done"
  /\ concurrency = 2
  /\ Len(p_operations) = 3
  /\ p_invoked = <<0, 1, 2>>
  /\ p_settled = <<1, 2, 0>>
  /\ p_operations[1].kind = "rejected"

\* Operation k of the list resolves to a value tagged as an error.
ErrorTagged(ops, k) == ops[k] = Fulfilled(Error("e1"))

\* C40: an operation that resolves to an error-tagged Result value counts
\* as a success.  In sequence it does not stop the run: the next
\* operation is still invoked, and when no operation throws or rejects
\* the value is an element of the success list returned.  In parallel
\* (limit at least 1) the value is in its slot of the success list.
C40_ErrorValueIsSuccess ==
  /\ \A k \in 1..Len(operations) :
       (/\ ErrorTagged(operations, k)
        /\ s_pc = "done"
        /\ \A j \in 1..(k - 1) : operations[j].kind = "fulfilled") =>
         /\ k < Len(operations) => (k + 1) \in Invoked
         /\ AllSucceed =>
              /\ s_result.value.kind = "ok"
              /\ s_result.value.value[k] = Error("e1")
  /\ \A k \in 1..Len(p_operations) :
       (ErrorTagged(p_operations, k) /\ p_pc = "done" /\ concurrency >= 1) =>
         /\ p_result.value.kind = "ok"
         /\ p_result.value.value[k] = Error("e1")

C40_Witness ==
  /\ Len(operations) = 2
  /\ ErrorTagged(operations, 1)
  /\ operations[2] = Fulfilled(Str("v1"))
  /\ s_pc = "done"
  /\ s_result = Fulfilled(Ok(<<Error("e1"), Str("v1")>>))
  /\ p_pc = "done"
  /\ concurrency = 2
  /\ p_result = s_result

(***************************************************************************)
(* calculateDelay (src/async/utils.ts lines 41-59)                         *)
(*                                                                         *)
(* Delays and factors are natural numbers.  Math.random() returns          *)
(* random / RandDen for a random in 0..RandDen-1, which covers [0, 1) in   *)
(* steps of 1/RandDen.                                                     *)
(*                                                                         *)
(*   config       the RetryConfig the caller passes                        *)
(*   dl_attempt   the attempt number of the caller's next call             *)
(*   dl_cur       the last call: its attempt, the random number drawn and  *)
(*                the value returned                                       *)
(*   dl_prev      the call before it                                       *)
(***************************************************************************)
RECURSIVE Pow(_, _)
Pow(b, e) == IF e = 0 THEN 1 ELSE b * Pow(b, e - 1)

Max(a, b) == IF a >= b THEN a ELSE b

NoCall == [attempt |-> -1, random |-> 0, result |-> 0]

Configs ==
  [initialDelay : 0..MaxInitialDelay, maxDelay : 0..MaxCeiling,
   backoffFactor : 0..MaxBackoff, jitter : BOOLEAN]

DelayInit ==
  /\ config \in Configs
  /\ dl_attempt = 0
  /\ dl_prev = NoCall
  /\ dl_cur = NoCall

\* A mutant of add_jitter: a jitterFactor of 0.5.
add_jitter_wide(d, random) == (d * (2 * RandDen + 4 * random)) \div (4 * RandDen)

\* add_jitter, lines 41-45: floor(delay * (1 - 0.25 + random * 0.25 * 2))
\* with random = random / RandDen, that is
\* floor(delay * (3 * RandDen + 2 * random) / (4 * RandDen)).
add_jitter(d, random) == (d * (3 * RandDen + 2 * random)) \div (4 * RandDen)

\* The delay before jitter, lines 55-56.
BaseDelay(a, cfg) ==
  Min(cfg.initialDelay * Pow(cfg.backoffFactor, a), cfg.maxDelay)

\* A mutant of calculateDelay: the ceiling is taken as a floor.
calculateDelayAtLeast(a, cfg, random) ==
  LET d == Max(cfg.initialDelay * Pow(cfg.backoffFactor, a), cfg.maxDelay)
  IN IF cfg.jitter THEN add_jitter(d, random) ELSE d

\* calculateDelay, lines 50-59.
calculateDelay(a, cfg, random) ==
  LET d == BaseDelay(a, cfg)
  IN IF cfg.jitter THEN add_jitter(d, random) ELSE d

\* The caller computes the delay of its next attempt.  Math.random() is
\* read only with jitter on (line 58).
ComputeDelay(random) ==
  /\ dl_attempt <= MaxDelayAttempt
  /\ config.jitter \/ random = 0
  /\ dl_prev' = dl_cur
  /\ dl_cur' = [attempt |-> dl_attempt, random |-> random,
                result |-> calculateDelay(dl_attempt, config, random)]
  /\ dl_attempt' = dl_attempt + 1
  /\ UNCHANGED config
  /\ DelayOnly

DelayNext == \E random \in 0..(RandDen - 1) : ComputeDelay(random)

(***************************************************************************)
(* Claims about calculateDelay                                             *)
(***************************************************************************)
\* C18: the delay calculateDelay returns is never more than maxDelay, with
\* or without jitter, whatever the random number.
C18_NeverAboveMaxDelay ==
  dl_cur.attempt >= 0 => dl_cur.result <= config.maxDelay

\* C19: with a backoff factor of at least 1 and the same random number (or
\* no jitter), the delay of attempt a + 1 is at least the delay of attempt
\* a, and equal to it once the delay before jitter has reached maxDelay.
C19_MonotoneInAttempt ==
  (/\ config.backoffFactor >= 1
   /\ dl_prev.attempt >= 0
   /\ dl_cur.attempt = dl_prev.attempt + 1
   /\ (~config.jitter \/ dl_prev.random = dl_cur.random)) =>
    /\ dl_prev.result <= dl_cur.result
    /\ config.initialDelay * Pow(config.backoffFactor, dl_prev.attempt)
           >= config.maxDelay => dl_cur.result = dl_prev.result

C19_Witness ==
  /\ config = [initialDelay |-> 1, maxDelay |-> 3, backoffFactor |-> 2,
               jitter |-> FALSE]
  /\ dl_prev.attempt = 2 /\ dl_prev.result = 3
  /\ dl_cur.attempt = 3 /\ dl_cur.result = 3

\* The RetryConfig that carries the options of a call of retry, no jitter.
RetryOptions ==
  [initialDelay |-> initial_delay, maxDelay |-> max_delay,
   backoffFactor |-> backoff_factor, jitter |-> FALSE]

\* C22: after the failed attempt of 0-based index a that is not the last
\* one allowed, retry sleeps for exactly calculateDelay(a, config); after
\* the last attempt allowed it does not sleep.  Stated here for a config
\* without jitter.
C22_SleepsComputedDelay ==
  /\ \A k \in 1..Len(r_slept) :
       r_slept[k] = calculateDelay(k - 1, RetryOptions, 0)
  /\ r_pc = "done" => Len(r_slept) < Max(max_attempts, 1)

\* C23: without jitter calculateDelay returns
\* min(initialDelay * backoffFactor^attempt, maxDelay); with jitter it
\* returns floor(d * r) for that d and some factor r in [0.75, 1.25] (here
\* r = n / (4 * RandDen), n between 3 * RandDen and 5 * RandDen).
C23_DelayFormula ==
  dl_cur.attempt >= 0 =>
    LET d == Min(config.initialDelay * Pow(config.backoffFactor, dl_cur.attempt),
                 config.maxDelay)
    IN IF config.jitter
         THEN \E n \in (3 * RandDen)..(5 * RandDen) :
                dl_cur.result = (d * n) \div (4 * RandDen)
         ELSE dl_cur.result = d

C23_Witness ==
  /\ config = [initialDelay |-> 4, maxDelay |-> 8, backoffFactor |-> 2,
               jitter |-> TRUE]
  /\ dl_cur.attempt = 1
  /\ dl_cur.result = 6
  /\ dl_prev.result = 4

(***************************************************************************)
(* Queue (src/collections/queue.ts).  A Queue is the record of its two     *)
(* readonly arrays.  Each method is an operator that returns `self`, the   *)
(* receiver as the call leaves it, and `ret`, what the call returns.       *)
(*                                                                         *)
(*   q_pc        "idle" or "live"                                          *)
(*   queue       the caller's variable (part_001 line 60): the queue the   *)
(*               last call returned                                        *)
(*   q_entered   the items that entered the queue, in order                *)
(*   q_removed   the items the successful dequeues returned, in order      *)
(*   q_last      the last call: the method, the receiver before and after  *)
(*               it, and what it returned                                  *)
(***************************************************************************)
Items == 1..MaxItem

ItemLists == UNION {[1..n -> Items] : n \in 0..MaxFrom}

Some(v) == [kind |-> "some", value |-> v]
None == [kind |-> "none"]

\* new Queue(incoming, outgoing): lines 11-14.
Queue(inc, out) == [incoming |-> inc, outgoing |-> out]

\* Array.prototype.reverse
Reverse(a) == [k \in 1..Len(a) |-> a[Len(a) + 1 - k]]

\* Queue.from(items), lines 32-34; Queue.empty() is Queue.from([]).
QueueFrom(items) == Queue(items, <<>>)

\* enqueue(item), lines 43-45.
enqueue(this, item) ==
  [self |-> this, ret |-> Queue(Append(this.incoming, item), this.outgoing)]

\* A mutant of dequeue: the incoming array is reversed in place.
dequeueReversesInPlace(this) ==
  IF Len(this.outgoing) > 0
    THEN [self |-> this,
          ret |-> Ok(<<Head(this.outgoing),
                       Queue(this.incoming, Tail(this.outgoing))>>)]
    ELSE IF Len(this.incoming) = 0
      THEN [self |-> this, ret |-> Error("empty_queue")]
      ELSE LET reversed == Reverse(this.incoming)
           IN [self |-> Queue(reversed, this.outgoing),
               ret |-> Ok(<<Head(reversed), Queue(<<>>, Tail(reversed))>>)]

\* dequeue(), lines 54-67.
dequeue(this) ==
  IF Len(this.outgoing) > 0
    THEN [self |-> this,
          ret |-> Ok(<<Head(this.outgoing),
                       Queue(this.incoming, Tail(this.outgoing))>>)]
    ELSE IF Len(this.incoming) = 0
      THEN [self |-> this, ret |-> Error("empty_queue")]
      ELSE LET reversed == Reverse(this.incoming)
           IN [self |-> this,
               ret |-> Ok(<<Head(reversed), Queue(<<>>, Tail(reversed))>>)]

\* peek(), lines 75-83.
peek(this) ==
  [self |-> this,
   ret |-> IF Len(this.outgoing) > 0 THEN Some(this.outgoing[1])
           ELSE IF Len(this.incoming) > 0
             THEN Some(this.incoming[Len(this.incoming)])
             ELSE None]

\* size(), lines 99-101.
size(this) == Len(this.incoming) + Len(this.outgoing)

QueueInit ==
  /\ q_pc = "live"
  /\ q_entered \in ItemLists
  /\ queue = QueueFrom(q_entered)
  /\ q_removed = <<>>
  /\ q_last = [op |-> "none"]

\* queue = queue.enqueue(item): part_001 line 61.
QueueEnqueue(item) ==
  /\ q_pc = "live"
  /\ Len(q_entered) < MaxEntered
  /\ LET r == enqueue(queue, item)
     IN /\ queue' = r.ret
        /\ q_last' = [op |-> "enqueue", before |-> queue, after |-> r.self,
                      ret |-> r.ret]
  /\ q_entered' = Append(q_entered, item)
  /\ UNCHANGED <<q_pc, q_removed>>
  /\ QueueOnly

\* queue.dequeue(): part_001 lines 63-68.  On success the caller goes on
\* with the queue returned.
QueueDequeue ==
  /\ q_pc = "live"
  /\ LET r == dequeue(queue)
     IN /\ q_last' = [op |-> "dequeue", before |-> queue, after |-> r.self,
                      ret |-> r.ret]
        /\ IF r.ret.kind = "ok"
             THEN /\ queue' = r.ret.value[2]
                  /\ q_removed' = Append(q_removed, r.ret.value[1])
             ELSE UNCHANGED <<queue, q_removed>>
  /\ UNCHANGED <<q_pc, q_entered>>
  /\ QueueOnly

\* queue.peek()
QueuePeek ==
  /\ q_pc = "live"
  /\ LET r == peek(queue)
     IN q_last' = [op |-> "peek", before |-> queue, after |-> r.self,
                   ret |-> r.ret]
  /\ UNCHANGED <<q_pc, queue, q_entered, q_removed>>
  /\ QueueOnly

QueueNext ==
  \/ \E item \in Items : QueueEnqueue(item)
  \/ QueueDequeue
  \/ QueuePeek

(***************************************************************************)
(* PriorityQueue (src/collections/priority_queue.ts).  The queue is its    *)
(* items array, a binary heap; indices are 0-based as in the code, index i *)
(* is position i + 1 of the sequence.  pq_order selects the compare        *)
(* function the queue was built with.                                      *)
(*                                                                         *)
(*   priorityQueue  the caller's variable (part_001 line 95)               *)
(*   pq_entered     the items given to from and to push, in order          *)
(*   pq_removed     the items the successful pops returned, in order       *)
(*   pq_last        the last call, as q_last; `run` is the items popped    *)
(*                  since the last push                                    *)
(***************************************************************************)
\* compare(a, b): (a, b) => a - b of part_001 line 94, or its reverse.
compare(order, a, b) == IF order = "asc" THEN a - b ELSE b - a

\* [heap[i], heap[j]] = [heap[j], heap[i]]
Swap(heap, i, j) ==
  [heap EXCEPT ![i + 1] = heap[j + 1], ![j + 1] = heap[i + 1]]

\* A mutant of sift_down: only the left child is looked at.
RECURSIVE sift_down_left_only(_, _, _)
sift_down_left_only(heap, current, order) ==
  LET length == Len(heap)
      left == 2 * current + 1
      smallest ==
        IF left < length /\ compare(order, heap[left + 1], heap[current + 1]) < 0
          THEN left ELSE current
  IN IF smallest = current THEN heap
     ELSE sift_down_left_only(Swap(heap, current, smallest), smallest, order)

\* sift_down(heap, index, compare), lines 28-53.
RECURSIVE sift_down(_, _, _)
sift_down(heap, current, order) ==
  LET length == Len(heap)
      left == 2 * current + 1
      right == left + 1
      s1 == IF left < length
               /\ compare(order, heap[left + 1], heap[current + 1]) < 0
              THEN left ELSE current
      smallest == IF right < length
                     /\ compare(order, heap[right + 1], heap[s1 + 1]) < 0
                    THEN right ELSE s1
  IN IF smallest = current THEN heap
     ELSE sift_down(Swap(heap, current, smallest), smallest, order)

\* The heapify loop of lines 22-24, from index i down to 0.
RECURSIVE Heapify(_, _, _)
Heapify(heap, i, order) ==
  IF i < 0 THEN heap ELSE Heapify(sift_down(heap, i, order), i - 1, order)

\* PriorityQueue.from(items, compare), lines 16-26.
PQFrom(items, order) == Heapify(items, (Len(items) \div 2) - 1, order)

\* The bubble-up loop of lines 60-67.
RECURSIVE BubbleUp(_, _, _)
BubbleUp(newItems, index, order) ==
  IF index > 0
    THEN LET parent == (index - 1) \div 2
         IN IF compare(order, newItems[parent + 1], newItems[index + 1]) <= 0
              THEN newItems
              ELSE BubbleUp(Swap(newItems, parent, index), parent, order)
    ELSE newItems

\* push(item), lines 55-70.
push(this, item, order) ==
  [self |-> this, ret |-> BubbleUp(Append(this, item), Len(this), order)]

\* pop(), lines 72-87.
pop(this, order) ==
  IF Len(this) = 0
    THEN [self |-> this, ret |-> Error("empty_queue")]
    ELSE LET result == this[1]
             last == this[Len(this)]
             popped == SubSeq(this, 1, Len(this) - 1)
             newItems == IF Len(popped) > 0
                           THEN sift_down([popped EXCEPT ![1] = last], 0, order)
                           ELSE popped
         IN [self |-> this, ret |-> Ok(<<result, newItems>>)]

\* peek(), lines 89-91.
pq_peek(this) ==
  [self |-> this, ret |-> IF Len(this) > 0 THEN Some(this[1]) ELSE None]

\* size(), lines 93-95.
pq_size(this) == Len(this)

PQInit ==
  /\ pq_pc = "live"
  /\ pq_order \in {"asc", "desc"}
  /\ pq_entered \in ItemLists
  /\ priorityQueue = PQFrom(pq_entered, pq_order)
  /\ pq_removed = <<>>
  /\ pq_last = [op |-> "none", run |-> <<>>]

\* priorityQueue = priorityQueue.push(item)
PQPush(item) ==
  /\ pq_pc = "live"
  /\ Len(pq_entered) < MaxEntered
  /\ LET r == push(priorityQueue, item, pq_order)
     IN /\ priorityQueue' = r.ret
        /\ pq_last' = [op |-> "push", before |-> priorityQueue,
                       after |-> r.self, ret |-> r.ret, run |-> <<>>]
  /\ pq_entered' = Append(pq_entered, item)
  /\ UNCHANGED <<pq_pc, pq_order, pq_removed>>
  /\ PQOnly

\* priorityQueue.pop(): part_001 lines 102-107.  On success the caller goes
\* on with the queue returned.
PQPop ==
  /\ pq_pc = "live"
  /\ LET r == pop(priorityQueue, pq_order)
     IN IF r.ret.kind = "ok"
          THEN /\ priorityQueue' = r.ret.value[2]
               /\ pq_removed' = Append(pq_removed, r.ret.value[1])
               /\ pq_last' = [op |-> "pop", before |-> priorityQueue,
                              after |-> r.self, ret |-> r.ret,
                              run |-> Append(pq_last.run, r.ret.value[1])]
          ELSE /\ pq_last' = [op |-> "pop", before |-> priorityQueue,
                              after |-> r.self, ret |-> r.ret,
                              run |-> pq_last.run]
               /\ UNCHANGED <<priorityQueue, pq_removed>>
  /\ UNCHANGED <<pq_pc, pq_order, pq_entered>>
  /\ PQOnly

\* priorityQueue.peek(): part_001 lines 97-100.
PQPeek ==
  /\ pq_pc = "live"
  /\ LET r == pq_peek(priorityQueue)
     IN pq_last' = [op |-> "peek", before |-> priorityQueue,
                    after |-> r.self, ret |-> r.ret, run |-> pq_last.run]
  /\ UNCHANGED <<pq_pc, priorityQueue, pq_order, pq_entered, pq_removed>>
  /\ PQOnly

PQNext ==
  \/ \E item \in Items : PQPush(item)
  \/ PQPop
  \/ PQPeek

\* Either collection, picked when the program starts.
CollectionsNext ==
  \/ \E item \in Items : QueueEnqueue(item)
  \/ QueueDequeue
  \/ QueuePeek
  \/ \E item \in Items : PQPush(item)
  \/ PQPop
  \/ PQPeek

(***************************************************************************)
(* Claims about Queue and PriorityQueue                                    *)
(***************************************************************************)
\* C25: Queue is first-in first-out: the k-th successful dequeue returns
\* the k-th item that entered the queue.
C25_FirstInFirstOut ==
  \A k \in 1..Len(q_removed) : q_removed[k] = q_entered[k]

\* The number of occurrences of v in the array a.
Count(a, v) == Cardinality({k \in 1..Len(a) : a[k] = v})

\* x is minimal under the queue's compare among the items of a.
Minimal(x, a) ==
  /\ \E k \in 1..Len(a) : a[k] = x
  /\ \A k \in 1..Len(a) : compare(pq_order, x, a[k]) <= 0

\* C26: peek and pop return an item minimal under compare among the items
\* held; pop removes exactly one occurrence of it and keeps the others;
\* the items popped in a row come out in non-decreasing order.
C26_PopsMinimum ==
  /\ (pq_last.op = "peek" /\ Len(pq_last.before) > 0) =>
       /\ pq_last.ret.kind = "some"
       /\ Minimal(pq_last.ret.value, pq_last.before)
  /\ (pq_last.op = "pop" /\ Len(pq_last.before) > 0) =>
       /\ pq_last.ret.kind = "ok"
       /\ Minimal(pq_last.ret.value[1], pq_last.before)
       /\ \A v \in Items :
            Count(pq_last.ret.value[2], v) =
              Count(pq_last.before, v)
                - (IF v = pq_last.ret.value[1] THEN 1 ELSE 0)
  /\ \A k \in 1..(Len(pq_last.run) - 1) :
       compare(pq_order, pq_last.run[k], pq_last.run[k + 1]) <= 0
  /\ \A v \in Items :
       Count(priorityQueue, v) = Count(pq_entered, v) - Count(pq_removed, v)

C26_Witness ==
  /\ pq_order = "asc"
  /\ pq_entered = <<3, 1, 2, 1>>
  /\ pq_last.op = "pop"
  /\ pq_last.run = <<1, 1, 2, 3>>
  /\ priorityQueue = <<>>

\* C28: on an empty queue dequeue and pop return the failure
\* "empty_queue" and peek returns none; no call changes the queue it is
\* called on; size() is the number of items entered minus the number
\* removed.  For Queue and for PriorityQueue.
C28_EmptinessAndPersistence ==
  /\ q_last.op # "none" =>
       /\ q_last.after = q_last.before
       /\ (q_last.op = "dequeue" /\ size(q_last.before) = 0) =>
            q_last.ret = Error("empty_queue")
       /\ (q_last.op = "peek" /\ size(q_last.before) = 0) => q_last.ret = None
  /\ size(queue) = Len(q_entered) - Len(q_removed)
  /\ pq_last.op # "none" =>
       /\ pq_last.after = pq_last.before
       /\ (pq_last.op = "pop" /\ pq_size(pq_last.before) = 0) =>
            pq_last.ret = Error("empty_queue")
       /\ (pq_last.op = "peek" /\ pq_size(pq_last.before) = 0) =>
            pq_last.ret = None
  /\ pq_size(priorityQueue) = Len(pq_entered) - Len(pq_removed)

C28_Witness ==
  /\ q_pc = "live"
  /\ Len(q_entered) = 3
  /\ Len(q_removed) = 3
  /\ q_last.op = "dequeue"
  /\ q_last.ret = Error("empty_queue")

(***************************************************************************)
(* fn.throttle(fn, wait) (src/fp/function.ts lines 182-205).               *)
(*                                                                         *)
(*   th_wait     wait (-1: throttle has not been called)                   *)
(*   th_now      Date.now(), in milliseconds; it starts positive           *)
(*   th_last     the closure variable last (line 183)                      *)
(*   th_timeout  the closure variable timeout (line 184): the pending      *)
(*               timer with its due time and the `now` and `args` its      *)
(*               callback captured                                         *)
(*   th_calls    the number of calls of the throttled function             *)
(*   th_invoked  the invocations of fn: time and arguments                 *)
(* A timer fires in the millisecond it is due.                             *)
(***************************************************************************)
FnArgs == 1..MaxArg

NoThrottleTimer == [armed |-> FALSE, due |-> 0, now |-> 0, args |-> 0]

ThrottleInit ==
  /\ th_wait \in 0..MaxWait
  /\ th_now = 1
  /\ th_last = 0
  /\ th_timeout = NoThrottleTimer
  /\ th_calls = 0
  /\ th_invoked = <<>>

\* A call of the throttled function: lines 186-204.
ThrottleCall(args) ==
  /\ th_wait >= 0
  /\ th_calls < MaxFnCalls
  /\ th_calls' = th_calls + 1
  /\ LET now == th_now
     IN IF th_last # 0 /\ now < th_last + th_wait
          THEN /\ th_timeout' =
                    IF th_timeout.armed THEN th_timeout
                    ELSE [armed |-> TRUE, due |-> now + th_wait,
                          now |-> now, args |-> args]
               /\ UNCHANGED <<th_last, th_invoked>>
          ELSE /\ th_last' = now
               /\ th_invoked' = Append(th_invoked, [at |-> now, args |-> args])
               /\ UNCHANGED th_timeout
  /\ UNCHANGED <<th_wait, th_now>>
  /\ ThrottleOnly

\* The timer of line 194 fires: lines 195-197.
ThrottleTimerFires ==
  /\ th_timeout.armed
  /\ th_timeout.due <= th_now
  /\ th_last' = th_timeout.now
  /\ th_invoked' = Append(th_invoked, [at |-> th_now, args |-> th_timeout.args])
  /\ th_timeout' = NoThrottleTimer
  /\ UNCHANGED <<th_wait, th_now, th_calls>>
  /\ ThrottleOnly

\* A millisecond passes; no timer is due.
ThrottleTick ==
  /\ th_wait >= 0
  /\ th_now < MaxNow
  /\ ~(th_timeout.armed /\ th_timeout.due <= th_now)
  /\ th_now' = th_now + 1
  /\ UNCHANGED <<th_wait, th_last, th_timeout, th_calls, th_invoked>>
  /\ ThrottleOnly

ThrottleNext ==
  \/ \E args \in FnArgs : ThrottleCall(args)
  \/ ThrottleTimerFires
  \/ ThrottleTick

\* C27: any two invocations of fn by the throttled function are at least
\* wait milliseconds apart.
C27_AtMostOncePerWindow ==
  \A i, j \in 1..Len(th_invoked) :
    i < j => th_invoked[j].at - th_invoked[i].at >= th_wait

(***************************************************************************)
(* fn.memoize(fn, key_fn) (src/fp/function.ts lines 136-152).              *)
(*                                                                         *)
(*   cache      the Map of line 141, as a set of [key, value] entries      *)
(*   m_calls    the calls of the memoized function: key and outcome        *)
(*   m_invoked  the invocations of fn: key and outcome                     *)
(* fn need not be pure: each invocation returns some result or throws.     *)
(***************************************************************************)
Num(n) == [type |-> "number", v |-> n]
Null == [type |-> "null", v |-> 0]
Undefined == [type |-> "undefined", v |-> 0]

MemoArgs == {Num(n) : n \in 1..MaxArg} \cup {Null, Undefined}

Returns(v) == [kind |-> "return", value |-> v]
Throws_ == [kind |-> "throw", value |-> 0]

FnOutcomes == {Returns(v) : v \in 1..MaxResult} \cup {Throws_}

\* The default key_fn, JSON.stringify(args) for one argument (lines
\* 138-139): undefined inside an array is written as null.
key_fn(a) ==
  IF a.type = "number" THEN "[" \o ToString(a.v) \o "]" ELSE "[null]"

cache_has(c, key) == \E entry \in c : entry.key = key

cache_get(c, key) == (CHOOSE entry \in c : entry.key = key).value

\* A mutant of cache_set: nothing is stored.
cache_set_dropped(c, key, value) == c

\* cache.set(key, result): line 149.
cache_set(c, key, value) ==
  {entry \in c : entry.key # key} \cup {[key |-> key, value |-> value]}

MemoizeInit ==
  /\ m_pc = "live"
  /\ cache = {}
  /\ m_calls = <<>>
  /\ m_invoked = <<>>

\* A call of the memoized function: lines 143-151.  o is what fn does if
\* it is invoked; an exception of fn leaves the call before line 149.
MemoizedCall(a, o) ==
  /\ m_pc = "live"
  /\ Len(m_calls) < MaxFnCalls
  /\ LET key == key_fn(a)
     IN IF cache_has(cache, key)
          THEN /\ m_calls' = Append(m_calls,
                      [key |-> key, outcome |-> Returns(cache_get(cache, key))])
               /\ UNCHANGED <<cache, m_invoked>>
          ELSE /\ m_invoked' = Append(m_invoked, [key |-> key, outcome |-> o])
               /\ cache' = IF o.kind = "return"
                             THEN cache_set(cache, key, o.value)
                             ELSE cache
               /\ m_calls' = Append(m_calls, [key |-> key, outcome |-> o])
  /\ UNCHANGED m_pc
  /\ MemoizeOnly

MemoizeNext == \E a \in MemoArgs, o \in FnOutcomes : MemoizedCall(a, o)

\* The first call with the key of call k.
FirstCall(k) ==
  CHOOSE i \in 1..k :
    /\ m_calls[i].key = m_calls[k].key
    /\ \A j \in 1..(i - 1) : m_calls[j].key # m_calls[k].key

\* C29 as stated: fn is invoked at most once per distinct cache key, and
\* every call with a key returns the result computed by the first call
\* with that key.
C29_OncePerKey ==
  /\ \A i, j \in 1..Len(m_invoked) :
       i # j => m_invoked[i].key # m_invoked[j].key
  /\ \A k \in 1..Len(m_calls) :
       m_calls[k].outcome = m_calls[FirstCall(k)].outcome

\* The first call with the key of call k in which fn returned, or 0.
FirstReturn(k) ==
  LET returned == {i \in 1..k : /\ m_calls[i].key = m_calls[k].key
                                /\ m_calls[i].outcome.kind = "return"}
  IN IF returned = {} THEN 0
     ELSE CHOOSE i \in returned : \A j \in returned : i <= j

\* C29 amended: once fn has returned for a key it is never invoked with
\* that key again, and every later call with the key returns that result;
\* a call in which fn throws caches nothing, so fn is invoked again by the
\* next call with the key.
C29_OncePerKeyReturned ==
  /\ \A i, j \in 1..Len(m_invoked) :
       (i < j /\ m_invoked[i].key = m_invoked[j].key) =>
         m_invoked[i].outcome.kind = "throw"
  /\ \A k \in 1..Len(m_calls) :
       FirstReturn(k) # 0 => m_calls[k].outcome = m_calls[FirstReturn(k)].outcome

C29_Witness ==
  /\ Len(m_calls) = 3
  /\ m_calls[1].key = key_fn(Null)
  /\ m_calls[1].outcome.kind = "throw"
  /\ m_calls[2].outcome = Returns(1)
  /\ m_calls[3] = m_calls[2]
  /\ Len(m_invoked) = 2

(***************************************************************************)
(* fn.debounce(fn, wait) (src/fp/function.ts lines 162-172).               *)
(*                                                                         *)
(*   db_wait     wait (-1: debounce has not been called)                   *)
(*   db_now      the time in milliseconds                                  *)
(*   db_timeout  the closure variable timeout (line 163): the pending      *)
(*               timer with its due time and the args its callback         *)
(*               captured                                                  *)
(*   db_calls    the calls of the debounced function: time and arguments   *)
(*   db_invoked  the invocations of fn: time, arguments and the number of  *)
(*               calls made so far                                         *)
(* A timer fires in the millisecond it is due.                             *)
(***************************************************************************)
NoDebounceTimer == [armed |-> FALSE, due |-> 0, args |-> 0]

DebounceInit ==
  /\ db_wait \in 0..MaxWait
  /\ db_now = 1
  /\ db_timeout = NoDebounceTimer
  /\ db_calls = <<>>
  /\ db_invoked = <<>>

\* A mutant of DebounceCall: a pending timer is kept, not replaced.
DebounceCallKeepsTimer(args) ==
  /\ db_wait >= 0
  /\ Len(db_calls) < MaxFnCalls
  /\ db_timeout' = IF db_timeout.armed THEN db_timeout
                   ELSE [armed |-> TRUE, due |-> db_now + db_wait,
                         args |-> args]
  /\ db_calls' = Append(db_calls, [at |-> db_now, args |-> args])
  /\ UNCHANGED <<db_wait, db_now, db_invoked>>
  /\ DebounceOnly

\* A call of the debounced function: lines 165-171.  clearTimeout drops
\* the pending timer, setTimeout arms a new one.
DebounceCall(args) ==
  /\ db_wait >= 0
  /\ Len(db_calls) < MaxFnCalls
  /\ db_timeout' = [armed |-> TRUE, due |-> db_now + db_wait, args |-> args]
  /\ db_calls' = Append(db_calls, [at |-> db_now, args |-> args])
  /\ UNCHANGED <<db_wait, db_now, db_invoked>>
  /\ DebounceOnly

\* The timer of line 167 fires: lines 168-169.
DebounceTimerFires ==
  /\ db_timeout.armed
  /\ db_timeout.due <= db_now
  /\ db_invoked' = Append(db_invoked,
                     [at |-> db_now, args |-> db_timeout.args,
                      ncalls |-> Len(db_calls)])
  /\ db_timeout' = NoDebounceTimer
  /\ UNCHANGED <<db_wait, db_now, db_calls>>
  /\ DebounceOnly

\* A millisecond passes; no timer is due.
DebounceTick ==
  /\ db_wait >= 0
  /\ db_now < MaxNow
  /\ ~(db_timeout.armed /\ db_timeout.due <= db_now)
  /\ db_now' = db_now + 1
  /\ UNCHANGED <<db_wait, db_timeout, db_calls, db_invoked>>
  /\ DebounceOnly

DebounceNext ==
  \/ \E args \in FnArgs : DebounceCall(args)
  \/ DebounceTimerFires
  \/ DebounceTick

\* C30: each invocation of fn happens exactly wait milliseconds after the
\* most recent call of the debounced function, with that call's arguments
\* and no call in between; no call is served twice; calls less than wait
\* apart yield no invocation between them; and when no timer is pending
\* the last call has been served.
C30_InvokedAfterQuietWait ==
  /\ \A k \in 1..Len(db_invoked) :
       /\ db_invoked[k].ncalls \in 1..Len(db_calls)
       /\ db_invoked[k].args = db_calls[db_invoked[k].ncalls].args
       /\ db_invoked[k].at = db_calls[db_invoked[k].ncalls].at + db_wait
       /\ \A j \in 1..(k - 1) : db_invoked[j].ncalls < db_invoked[k].ncalls
  /\ \A c \in 1..(Len(db_calls) - 1) :
       db_calls[c + 1].at - db_calls[c].at < db_wait =>
         \A k \in 1..Len(db_invoked) : db_invoked[k].ncalls # c
  /\ (db_calls # <<>> /\ ~db_timeout.armed) =>
       /\ db_invoked # <<>>
       /\ db_invoked[Len(db_invoked)].ncalls = Len(db_calls)

C30_Witness ==
  /\ db_wait = 2
  /\ Len(db_calls) = 3
  /\ db_calls[1].at = 1 /\ db_calls[2].at = 2 /\ db_calls[3].at = 3
  /\ db_calls[3].args # db_calls[1].args
  /\ db_invoked = <<[at |-> 5, args |-> db_calls[3].args, ncalls |-> 3]>>

(***************************************************************************)
(* Specifications                                                          *)
(***************************************************************************)
InitRetry ==
  RetryInit /\ TimeoutIdle /\ CancelIdle /\ DeferredIdle /\ SequenceIdle
    /\ ParallelIdle /\ DelayIdle /\ QueueIdle /\ PQIdle /\ ThrottleIdle
    /\ MemoizeIdle /\ DebounceIdle

SpecRetry == InitRetry /\ [][RetryNext]_vars

InitTimeout ==
  TimeoutInit /\ RetryIdle /\ CancelIdle /\ DeferredIdle /\ SequenceIdle
    /\ ParallelIdle /\ DelayIdle /\ QueueIdle /\ PQIdle /\ ThrottleIdle
    /\ MemoizeIdle /\ DebounceIdle

SpecTimeout == InitTimeout /\ [][TimeoutNext]_vars

InitCancel ==
  CancelInit /\ RetryIdle /\ TimeoutIdle /\ DeferredIdle /\ SequenceIdle
    /\ ParallelIdle /\ DelayIdle /\ QueueIdle /\ PQIdle /\ ThrottleIdle
    /\ MemoizeIdle /\ DebounceIdle

SpecCancel == InitCancel /\ [][CancelNext]_vars

InitDeferred ==
  DeferredInit /\ RetryIdle /\ TimeoutIdle /\ CancelIdle /\ SequenceIdle
    /\ ParallelIdle /\ DelayIdle /\ QueueIdle /\ PQIdle /\ ThrottleIdle
    /\ MemoizeIdle /\ DebounceIdle

SpecDeferred == InitDeferred /\ [][DeferredNext]_vars

InitSequence ==
  SequenceInit /\ RetryIdle /\ TimeoutIdle /\ CancelIdle /\ DeferredIdle
    /\ ParallelIdle /\ DelayIdle /\ QueueIdle /\ PQIdle /\ ThrottleIdle
    /\ MemoizeIdle /\ DebounceIdle

SpecSequence == InitSequence /\ [][SequenceNext]_vars

InitParallel ==
  ParallelInit /\ RetryIdle /\ TimeoutIdle /\ CancelIdle /\ DeferredIdle
    /\ SequenceIdle /\ DelayIdle /\ QueueIdle /\ PQIdle /\ ThrottleIdle
    /\ MemoizeIdle /\ DebounceIdle

SpecParallel == InitParallel /\ [][ParallelNext]_vars

InitSequenceThenParallel ==
  SequenceInit /\ RetryIdle /\ TimeoutIdle /\ CancelIdle /\ DeferredIdle
    /\ ParallelIdle /\ DelayIdle /\ QueueIdle /\ PQIdle /\ ThrottleIdle
    /\ MemoizeIdle /\ DebounceIdle

SpecSequenceThenParallel ==
  InitSequenceThenParallel /\ [][SequenceThenParallelNext]_vars

InitDelay ==
  DelayInit /\ RetryIdle /\ TimeoutIdle /\ CancelIdle /\ DeferredIdle
    /\ SequenceIdle /\ ParallelIdle /\ QueueIdle /\ PQIdle /\ ThrottleIdle
    /\ MemoizeIdle /\ DebounceIdle

SpecDelay == InitDelay /\ [][DelayNext]_vars

\* make_cancelable with an operation that eventually settles and a
\* microtask queue that runs every queued reaction.
SpecCancelFair ==
  /\ InitCancel
  /\ [][CancelNext]_vars
  /\ WF_vars(\E p \in CancelableOutcomes : PromiseSettles(p))
  /\ WF_vars(ThenReaction)
  /\ WF_vars(CatchReaction)

InitQueue ==
  QueueInit /\ RetryIdle /\ TimeoutIdle /\ CancelIdle /\ DeferredIdle
    /\ SequenceIdle /\ ParallelIdle /\ DelayIdle /\ PQIdle /\ ThrottleIdle
    /\ MemoizeIdle /\ DebounceIdle

SpecQueue == InitQueue /\ [][QueueNext]_vars

InitPQ ==
  PQInit /\ RetryIdle /\ TimeoutIdle /\ CancelIdle /\ DeferredIdle
    /\ SequenceIdle /\ ParallelIdle /\ DelayIdle /\ QueueIdle /\ ThrottleIdle
    /\ MemoizeIdle /\ DebounceIdle

SpecPQ == InitPQ /\ [][PQNext]_vars

InitCollections ==
  /\ (QueueInit /\ PQIdle) \/ (QueueIdle /\ PQInit)
  /\ RetryIdle /\ TimeoutIdle /\ CancelIdle /\ DeferredIdle /\ SequenceIdle
  /\ ParallelIdle /\ DelayIdle /\ ThrottleIdle /\ MemoizeIdle /\ DebounceIdle

SpecCollections == InitCollections /\ [][CollectionsNext]_vars

InitThrottle ==
  ThrottleInit /\ RetryIdle /\ TimeoutIdle /\ CancelIdle /\ DeferredIdle
    /\ SequenceIdle /\ ParallelIdle /\ DelayIdle /\ QueueIdle
    /\ PQIdle /\ MemoizeIdle /\ DebounceIdle

SpecThrottle == InitThrottle /\ [][ThrottleNext]_vars

InitMemoize ==
  MemoizeInit /\ RetryIdle /\ TimeoutIdle /\ CancelIdle /\ DeferredIdle
    /\ SequenceIdle /\ ParallelIdle /\ DelayIdle /\ QueueIdle
    /\ PQIdle /\ ThrottleIdle /\ DebounceIdle

SpecMemoize == InitMemoize /\ [][MemoizeNext]_vars

InitDebounce ==
  DebounceInit /\ RetryIdle /\ TimeoutIdle /\ CancelIdle /\ DeferredIdle
    /\ SequenceIdle /\ ParallelIdle /\ DelayIdle /\ QueueIdle
    /\ PQIdle /\ ThrottleIdle /\ MemoizeIdle

SpecDebounce == InitDebounce /\ [][DebounceNext]_vars

====
